---- MODULE Spec2Model ----
(***************************************************************************)
(* GOAP: regressive A* planner (goap/planner/regressive_astar.py,          *)
(* goap/algo/astar.py, goap/priority_queue.py) and the plan executor       *)
(* (goap/planner.py ActionPlan).                                           *)
(*                                                                         *)
(* Python values are modelled as strings ("True", "1", "abracadabra"...),  *)
(* dict keys as strings.  A dict whose iteration order matters (a node's   *)
(* goal_state) is a record [keys, val]: keys is the insertion order, val   *)
(* the mapping.  A dict whose order never matters (current_state, the      *)
(* WorldState, services) is a plain function.                              *)
(***************************************************************************)
EXTENDS Integers, Sequences, FiniteSets, TLC

VARIABLES
    world,       \* the WorldState dict (key -> value)
    actions,     \* RegressivePlanner._actions: the action list, by name
    goal,        \* the goal_state passed to find_plan
    pc,          \* position of find_plan: idle, search, found, notfound, keyerror, cutoff
    nodes,       \* every RegressiveGOAPAStarNode created, by identity (index)
    parents,     \* find_path: parents dict (node -> node)
    g_scores,    \* find_path: g_scores dict
    f_scores,    \* find_path: f_scores dict
    candidates,  \* find_path: the PriorityQueue [dict, heap]
    rejects,     \* find_path: the closed set
    expanded,    \* the nodes popped and expanded, in order
    plan,        \* the list of PlanStep returned by find_plan
    plan_steps,         \* ActionPlan._plan_steps: the steps [action, goal_state]
    plan_steps_it,      \* ActionPlan._plan_steps_it: how many steps the iterator gave
    current_plan_step,  \* ActionPlan.current_plan_step: a step index, 0 for None
    log,                \* the hooks invoked and values returned, in order
    calls,              \* update() and cancel() calls made so far
    goals,              \* Director.goals: the goal list, by name
    planner,            \* Director.planner: the goals it finds a plan for
    generator,          \* Director._generator: where _execution_loop stands
    graph               \* what a search over named nodes is run on: edge costs and h

searchVars == <<actions, goal, pc, nodes, parents, g_scores, f_scores,
                candidates, rejects, expanded, plan>>

execVars == <<plan_steps, plan_steps_it, current_plan_step, log, calls>>

directorVars == <<goals, planner, generator>>

vars == <<world, searchVars, execVars, directorVars, graph>>

-----------------------------------------------------------------------------
(* Bounds of the model *)

MaxActions == 4      \* longest action list given to a planner
MaxNodes == 14       \* nodes a search may create before the model abandons it
MaxReachDepth == 4   \* forward steps explored when deciding that a goal is reachable
MaxPlanLen == 2      \* longest plan handed to the executor
MaxCalls == 3        \* update() and cancel() calls made on one plan
MaxOps == 4          \* add, remove and pop calls made on one PriorityQueue
MaxGoals == 2        \* longest goal list given to a Director
MaxTicks == 3        \* Director.update() calls made on one Director
MaxEvents == 6       \* calls a Director makes and receives, over all its ticks
MaxEdgeCost == 3     \* highest get_g_score of an edge between named nodes
MaxHScore == 3       \* highest get_h_score of a named node

-----------------------------------------------------------------------------
(* Values and dicts *)

Ellipsis == "..."
NOT_DEFINED == "NOT_DEFINED"
NoAction == "None"

EmptyFn == [k \in {} |-> NOT_DEFINED]
EmptyDict == [keys |-> <<>>, val |-> EmptyFn]

\* d[key] = value on an insertion-ordered dict
Put(d, key, value) ==
    IF key \in DOMAIN d.val
    THEN [d EXCEPT !.val[key] = value]
    ELSE [keys |-> Append(d.keys, key), val |-> (key :> value) @@ d.val]

\* world_state.get(key, NOT_DEFINED)
WorldGet(world_state, key) ==
    IF key \in DOMAIN world_state THEN world_state[key] ELSE NOT_DEFINED

RECURSIVE DictOfFrom(_, _, _)
DictOfFrom(pairs, i, d) ==
    IF i > Len(pairs) THEN d
    ELSE DictOfFrom(pairs, i + 1, Put(d, pairs[i][1], pairs[i][2]))

\* the dict literal {k1: v1, k2: v2, ...}
DictOf(pairs) == DictOfFrom(pairs, 1, EmptyDict)

-----------------------------------------------------------------------------
(* Actions: class attributes of goap.action.Action subclasses *)

Eff(k, v) == [key |-> k, value |-> v]
Lit(k, v) == [key |-> k, value |-> v, ref |-> FALSE]
Ref(k, e) == [key |-> k, value |-> e, ref |-> TRUE]

DefaultCost == 1
DefaultPrecedence == 0

ActionClass(n, eff, pre, c, p) ==
    [name |-> n, effects |-> eff, preconditions |-> pre, cost |-> c,
     precedence |-> p, apply_effects_on_exit |-> TRUE, refused |-> {}]

SPOOKY_INCANTATION == "WOOO I'm a ghost"
INCANTATION == "I am ghostly"

\* examples/01-haunting.py
Haunt == ActionClass("Haunt", <<Eff("is_spooky", "True")>>,
                     <<Lit("is_undead", "True")>>, DefaultCost, DefaultPrecedence)
BecomeUndead == ActionClass("BecomeUndead", <<Eff("is_undead", "True")>>,
                     <<Lit("is_undead", "False")>>, DefaultCost, DefaultPrecedence)
\* tests/test_issue_2.py
BecomeTwo == ActionClass("BecomeTwo", <<Eff("age", "2")>>, <<Lit("age", "1")>>,
                     DefaultCost, DefaultPrecedence)
BecomeOne == ActionClass("BecomeOne", <<Eff("age", "1")>>, <<Lit("age", "2")>>,
                     DefaultCost, DefaultPrecedence)
\* tests/test_issue_7.py
Action1 == ActionClass("Action1", <<Eff("FIRST", "True")>>, <<>>,
                     DefaultCost, DefaultPrecedence)
Action2 == ActionClass("Action2", <<Eff("SECOND", "True")>>, <<Lit("FIRST", "True")>>,
                     DefaultCost, DefaultPrecedence)
Action3 == ActionClass("Action3", <<Eff("THIRD", "True")>>,
                     <<Lit("FIRST", "True"), Lit("SECOND", "True")>>,
                     DefaultCost, DefaultPrecedence)
\* tests/test_service.py
HauntWithChant == ActionClass("HauntWithChant", <<Eff("is_spooky", "True")>>,
                     <<Lit("chant_incantation", SPOOKY_INCANTATION)>>,
                     DefaultCost, DefaultPrecedence)
ChantIncantationCost == 2
ChantIncantation == ActionClass("ChantIncantation", <<Eff("chant_incantation", Ellipsis)>>,
                     <<>>, ChantIncantationCost, DefaultPrecedence)
ChantSpecificIncantation == ActionClass("ChantSpecificIncantation",
                     <<Eff("chant_incantation", INCANTATION)>>, <<>>,
                     DefaultCost, DefaultPrecedence)
HauntChanting == ActionClass("HauntChanting",
                     <<Eff("is_spooky", "True"), Eff("chant_incantation", Ellipsis)>>, <<>>,
                     DefaultCost, DefaultPrecedence)
\* tests/test_reference.py
HauntWithMagic == ActionClass("HauntWithMagic", <<Eff("is_spooky", "True")>>,
                     <<Lit("performs_magic", "abracadabra")>>,
                     DefaultCost, DefaultPrecedence)
PerformMagic == ActionClass("PerformMagic", <<Eff("performs_magic", Ellipsis)>>,
                     <<Ref("chant_incantation", "performs_magic")>>,
                     DefaultCost, DefaultPrecedence)
HauntWithHocus == ActionClass("HauntWithHocus", <<Eff("is_spooky", "True")>>,
                     <<Lit("performs_magic", "hocus pocus")>>,
                     DefaultCost, DefaultPrecedence)
ChantAnything == ActionClass("ChantAnything", <<Eff("chant_incantation", Ellipsis)>>,
                     <<>>, DefaultCost, DefaultPrecedence)

\* demos/demo_bge.py: an action whose effects are not committed on exit
ChaseTarget == [ActionClass("ChaseTarget", <<Eff("in_weapons_range", "True")>>, <<>>,
                            DefaultCost, DefaultPrecedence)
                   EXCEPT !.apply_effects_on_exit = FALSE]

\* Further Action subclasses over the keys a, b, c, used as inputs
LatePrecedence == 1
HighCost == 2
SetA == ActionClass("SetA", <<Eff("a", "1")>>, <<>>, DefaultCost, DefaultPrecedence)
SetALate == ActionClass("SetALate", <<Eff("a", "1")>>, <<>>, DefaultCost, LatePrecedence)
SetACostly == ActionClass("SetACostly", <<Eff("a", "1")>>, <<>>, HighCost, DefaultPrecedence)
SetB == ActionClass("SetB", <<Eff("b", "1")>>, <<>>, DefaultCost, DefaultPrecedence)
SetBLate == ActionClass("SetBLate", <<Eff("b", "1")>>, <<>>, DefaultCost, LatePrecedence)
SetAUnlessB == ActionClass("SetAUnlessB", <<Eff("a", "1")>>, <<Lit("b", "0")>>,
                     DefaultCost, DefaultPrecedence)
SetAIfB == ActionClass("SetAIfB", <<Eff("a", "1")>>, <<Lit("b", "1")>>,
                     DefaultCost, DefaultPrecedence)
SetBIfA == ActionClass("SetBIfA", <<Eff("b", "1")>>, <<Lit("a", "1")>>,
                     DefaultCost, DefaultPrecedence)

\* Action subclasses overriding check_procedural_precondition: `refused` holds
\* the services tables for which the override returns False while planning
ChantUnlessSpooky ==
    [ActionClass("ChantUnlessSpooky", <<Eff("chant_incantation", Ellipsis)>>, <<>>,
                 DefaultCost, DefaultPrecedence)
        EXCEPT !.refused = {"chant_incantation" :> SPOOKY_INCANTATION}]
HauntUnplanned ==
    [ActionClass("HauntUnplanned", <<Eff("is_spooky", "True")>>, <<>>,
                 DefaultCost, DefaultPrecedence)
        EXCEPT !.refused = {<<>>}]

\* a class body declaring the Service marker as a precondition value
HauntWithAnyChant == ActionClass("HauntWithAnyChant", <<Eff("is_spooky", "True")>>,
                     <<Lit("chant_incantation", Ellipsis)>>,
                     DefaultCost, DefaultPrecedence)
\* a class body forwarding an effect it does not declare
HauntForwarding == ActionClass("HauntForwarding", <<Eff("is_spooky", "True")>>,
                     <<Ref("chant_incantation", "performs_magic")>>,
                     DefaultCost, DefaultPrecedence)

\* the class bodies written by the user
DeclaredClasses ==
    {Haunt, BecomeUndead, BecomeTwo, BecomeOne, HauntWithHocus, HauntChanting, ChaseTarget,
     Action1, Action2, Action3, HauntWithChant,
     ChantIncantation, ChantSpecificIncantation, HauntWithMagic, PerformMagic,
     ChantAnything, SetA, SetALate, SetACostly, SetB, SetBLate, SetAUnlessB,
     SetAIfB, SetBIfA, ChantUnlessSpooky, HauntUnplanned, HauntWithAnyChant,
     HauntForwarding}

\* a validator accepting every class body
ValidatePreconditionsRaises_Never(all_effects, preconditions) == FALSE

\* ActionValidator._validate_preconditions: does it raise?
ValidatePreconditionsRaises(all_effects, preconditions) ==
    \E i \in DOMAIN preconditions :
        \/ ~preconditions[i].ref /\ preconditions[i].value = Ellipsis
        \/ /\ preconditions[i].ref
           /\ preconditions[i].value \notin {all_effects[j].key : j \in DOMAIN all_effects}

\* ActionValidator.__new__: the classes whose definition succeeds
ActionClasses ==
    {a \in DeclaredClasses : ~ValidatePreconditionsRaises(a.effects, a.preconditions)}

\* the names of a pool that are classes
Defined(pool) == {n \in pool : \E a \in ActionClasses : a.name = n}

\* the action instance of a given class name
Action(name) == CHOOSE a \in ActionClasses : a.name = name

EffectKeys(action) == {action.effects[i].key : i \in DOMAIN action.effects}
PreconditionKeys(action) ==
    {action.preconditions[i].key : i \in DOMAIN action.preconditions}
EffectValue(action, key) ==
    LET i == CHOOSE j \in DOMAIN action.effects : action.effects[j].key = key
    IN action.effects[i].value

\* Action.service_names: the effect keys declared with the Ellipsis marker
ServiceNames(action) ==
    {k \in EffectKeys(action) : EffectValue(action, k) = Ellipsis}

\* Action.get_cost(services)
GetCost(action, services) == action.cost

\* check_procedural_precondition(services, is_planning) accepting everything
CheckProceduralPrecondition_AlwaysTrue(action, services, is_planning) == TRUE

\* Action.check_procedural_precondition(services, is_planning): True unless the
\* subclass overrides it
CheckProceduralPrecondition(action, services, is_planning) ==
    ~(is_planning /\ services \in action.refused)

-----------------------------------------------------------------------------
(* RegressiveGOAPAStarNode *)

Node(current_state, goal_state, action) ==
    [current_state |-> current_state, goal_state |-> goal_state, action |-> action]

\* RegressiveGOAPAStarNode.services
Services(node) ==
    [k \in ServiceNames(Action(node.action)) |-> node.current_state[k]]

\* RegressiveGOAPAStarNode.unsatisfied_keys, in goal_state order
UnsatisfiedKeys(node) ==
    SelectSeq(node.goal_state.keys,
              LAMBDA k : node.current_state[k] # node.goal_state.val[k])

\* RegressiveGOAPAStarNode.is_satisfied
IsSatisfied(node) == UnsatisfiedKeys(node) = <<>>

\* apply_action taking a service value from the WorldState, not from the goal
EffectValueWritten_ServiceFromWorld(node, world_state, action, i) ==
    LET key == action.effects[i].key
        declared == action.effects[i].value
    IN IF declared = Ellipsis \/ key \in PreconditionKeys(action)
       THEN WorldGet(world_state, key)
       ELSE declared

\* apply_action without the branch for a key that is effect and precondition
EffectValueWritten_NoOwnPrecondition(node, world_state, action, i) ==
    LET key == action.effects[i].key
        declared == action.effects[i].value
    IN IF declared = Ellipsis THEN node.goal_state.val[key] ELSE declared

\* apply_action writing, for a key that is effect and precondition, the value
\* the precondition declares
EffectValueWritten_DeclaredPrecondition(node, world_state, action, i) ==
    LET key == action.effects[i].key
        declared == action.effects[i].value
    IN IF declared = Ellipsis
       THEN node.goal_state.val[key]
       ELSE IF key \in PreconditionKeys(action)
            THEN LET j == CHOOSE j \in DOMAIN action.preconditions :
                                action.preconditions[j].key = key
                 IN action.preconditions[j].value
            ELSE declared

\* the value apply_action writes into current_state for one effect
EffectValueWritten(node, world_state, action, i) ==
    LET key == action.effects[i].key
        declared == action.effects[i].value
    IN IF declared = Ellipsis
       THEN node.goal_state.val[key]
       ELSE IF key \in PreconditionKeys(action)
            THEN WorldGet(world_state, key)
            ELSE declared

RECURSIVE ApplyEffectsFrom(_, _, _, _, _)
ApplyEffectsFrom(i, current_state, node, world_state, action) ==
    IF i > Len(action.effects) THEN current_state
    ELSE ApplyEffectsFrom(
            i + 1,
            (action.effects[i].key :> EffectValueWritten(node, world_state, action, i))
                @@ current_state,
            node, world_state, action)

\* apply_action copying a reference into the goal without resolving it
PreconditionValueWritten_Unresolved(current_state, precondition) == precondition.value

\* the value apply_action writes into goal_state for one precondition
PreconditionValueWritten(current_state, precondition) ==
    IF precondition.ref THEN current_state[precondition.value] ELSE precondition.value

\* apply_action giving a new key of current_state the value the precondition asks
RECURSIVE ApplyPreconditionsFrom_GroundedInGoal(_, _, _, _)
ApplyPreconditionsFrom_GroundedInGoal(i, st, world_state, action) ==
    IF i > Len(action.preconditions) THEN st
    ELSE LET pre == action.preconditions[i]
             value == PreconditionValueWritten(st.cs, pre)
             gs == Put(st.gs, pre.key, value)
             cs == IF pre.key \in DOMAIN st.cs THEN st.cs
                   ELSE (pre.key :> value) @@ st.cs
         IN ApplyPreconditionsFrom_GroundedInGoal(i + 1, [cs |-> cs, gs |-> gs],
                                                  world_state, action)

\* apply_action's second loop over a pair [cs, gs]
RECURSIVE ApplyPreconditionsFrom(_, _, _, _)
ApplyPreconditionsFrom(i, st, world_state, action) ==
    IF i > Len(action.preconditions) THEN st
    ELSE LET pre == action.preconditions[i]
             value == PreconditionValueWritten(st.cs, pre)
             gs == Put(st.gs, pre.key, value)
             cs == IF pre.key \in DOMAIN st.cs THEN st.cs
                   ELSE (pre.key :> WorldGet(world_state, pre.key)) @@ st.cs
         IN ApplyPreconditionsFrom(i + 1, [cs |-> cs, gs |-> gs], world_state, action)

\* apply_action raises KeyError when a service effect's key is not a goal key, or
\* when a reference names a key the new current_state does not have
ApplyActionRaises(node, action) ==
    \/ \E i \in DOMAIN action.effects :
          /\ action.effects[i].value = Ellipsis
          /\ action.effects[i].key \notin DOMAIN node.goal_state.val
    \/ \E i \in DOMAIN action.preconditions :
          /\ action.preconditions[i].ref
          /\ action.preconditions[i].value
                \notin DOMAIN node.current_state \cup EffectKeys(action)

\* RegressiveGOAPAStarNode.apply_action
ApplyAction(node, world_state, action) ==
    LET cs1 == ApplyEffectsFrom(1, node.current_state, node, world_state, action)
        st == ApplyPreconditionsFrom(1, [cs |-> cs1, gs |-> node.goal_state],
                                     world_state, action)
    IN Node(st.cs, st.gs, action.name)

\* world_state.get with a default that is stored when the key is missing
WorldAfterGet_SetDefault(world_state, key) ==
    IF key \in DOMAIN world_state THEN world_state
    ELSE (key :> NOT_DEFINED) @@ world_state

\* the WorldState dict after world_state.get(key, NOT_DEFINED)
WorldAfterGet(world_state, key) == world_state

\* the WorldState dict after apply_action's effects loop, which ends early when
\* a service effect's key is not a goal key (KeyError)
RECURSIVE WorldAfterEffectsFrom(_, _, _, _)
WorldAfterEffectsFrom(i, node, world_state, action) ==
    IF i > Len(action.effects) THEN world_state
    ELSE LET key == action.effects[i].key
             declared == action.effects[i].value
         IN IF declared = Ellipsis
            THEN IF key \in DOMAIN node.goal_state.val
                 THEN WorldAfterEffectsFrom(i + 1, node, world_state, action)
                 ELSE world_state
            ELSE IF key \in PreconditionKeys(action)
                 THEN WorldAfterEffectsFrom(i + 1, node, WorldAfterGet(world_state, key), action)
                 ELSE WorldAfterEffectsFrom(i + 1, node, world_state, action)

\* the WorldState dict after apply_action's preconditions loop; known is the
\* key set of current_state when the loop starts
RECURSIVE WorldAfterPreconditionsFrom(_, _, _, _)
WorldAfterPreconditionsFrom(i, known, world_state, action) ==
    IF i > Len(action.preconditions) THEN world_state
    ELSE LET key == action.preconditions[i].key
         IN WorldAfterPreconditionsFrom(
                i + 1, known \cup {key},
                IF key \in known THEN world_state ELSE WorldAfterGet(world_state, key),
                action)

\* the WorldState dict after node.apply_action(world_state, action)
WorldAfterApplyAction(node, world_state, action) ==
    LET after_effects == WorldAfterEffectsFrom(1, node, world_state, action)
    IN IF ApplyActionRaises(node, action) THEN after_effects
       ELSE WorldAfterPreconditionsFrom(
                1, DOMAIN node.current_state \cup EffectKeys(action), after_effects, action)

-----------------------------------------------------------------------------
(* heapq and PriorityQueue *)

\* PriorityElement
PriorityElement(element, score) == [value |-> element, score |-> score, removed |-> FALSE]

\* PriorityElement.__lt__
Lt(x, y) == x.score < y.score

\* heapq._siftdown; positions are 0-based as in heapq, heap[pos + 1] is the entry
RECURSIVE SiftDownLoop(_, _, _, _)
SiftDownLoop(heap, startpos, pos, newitem) ==
    IF pos > startpos
    THEN LET parentpos == (pos - 1) \div 2
             parent == heap[parentpos + 1]
         IN IF Lt(newitem, parent)
            THEN SiftDownLoop([heap EXCEPT ![pos + 1] = parent], startpos, parentpos, newitem)
            ELSE [heap EXCEPT ![pos + 1] = newitem]
    ELSE [heap EXCEPT ![pos + 1] = newitem]

SiftDown(heap, startpos, pos) == SiftDownLoop(heap, startpos, pos, heap[pos + 1])

\* heapq._siftup
RECURSIVE SiftUpLoop(_, _, _, _)
SiftUpLoop(heap, startpos, pos, newitem) ==
    LET endpos == Len(heap)
        childpos == 2 * pos + 1
        rightpos == childpos + 1
    IN IF childpos < endpos
       THEN LET c == IF rightpos < endpos /\ ~Lt(heap[childpos + 1], heap[rightpos + 1])
                     THEN rightpos ELSE childpos
            IN SiftUpLoop([heap EXCEPT ![pos + 1] = heap[c + 1]], startpos, c, newitem)
       ELSE SiftDown([heap EXCEPT ![pos + 1] = newitem], startpos, pos)

SiftUp(heap, pos) == SiftUpLoop(heap, pos, pos, heap[pos + 1])

\* heapq.heappush
HeapPush(heap, item) == SiftDown(Append(heap, item), 0, Len(heap))

\* heapq.heappop: [item, heap]
HeapPop(heap) ==
    LET lastelt == heap[Len(heap)]
        rest == SubSeq(heap, 1, Len(heap) - 1)
    IN IF rest # <<>>
       THEN [item |-> rest[1], heap |-> SiftUp([rest EXCEPT ![1] = lastelt], 0)]
       ELSE [item |-> lastelt, heap |-> <<>>]

\* PriorityQueue(): _dict is the set of queued items, _heap the heap list
EmptyQueue == [dict |-> {}, heap |-> <<>>]

\* PriorityQueue.__bool__
QueueBool(q) == q.dict # {}

\* PriorityQueue.__contains__
QueueContains(q, item) == item \in q.dict

\* add() accepting an item that is already queued
QueueAddRaises_Never(q, item) == FALSE

\* PriorityQueue.add raises ValueError when the item is queued
QueueAddRaises(q, item) == item \in q.dict

\* PriorityQueue.add, the score being key(item) at this moment
QueueAdd(q, item, score) ==
    [dict |-> q.dict \cup {item},
     heap |-> HeapPush(q.heap, PriorityElement(item, score))]

\* PriorityQueue.pop raises IndexError: no live element is left in the heap
QueuePopRaises(q) == \A i \in DOMAIN q.heap : q.heap[i].removed

\* PriorityQueue.pop returning the first heap entry, flagged or not
QueuePop_ReturnsFlagged(q) ==
    LET r == HeapPop(q.heap)
    IN [value |-> r.item.value, score |-> r.item.score,
        queue |-> [dict |-> q.dict \ {r.item.value}, heap |-> r.heap]]

\* PriorityQueue.remove raises KeyError: the item is not queued
QueueRemoveRaises(q, item) == item \notin q.dict

\* pop() returning the item without deleting it from the dict
RECURSIVE QueuePop_KeepsItem(_)
QueuePop_KeepsItem(q) ==
    LET r == HeapPop(q.heap)
    IN IF ~r.item.removed
       THEN [value |-> r.item.value, score |-> r.item.score,
             queue |-> [dict |-> q.dict, heap |-> r.heap]]
       ELSE QueuePop_KeepsItem([dict |-> q.dict, heap |-> r.heap])

\* PriorityQueue.pop: [value, queue]
RECURSIVE QueuePop(_)
QueuePop(q) ==
    LET r == HeapPop(q.heap)
    IN IF ~r.item.removed
       THEN [value |-> r.item.value, score |-> r.item.score,
             queue |-> [dict |-> q.dict \ {r.item.value}, heap |-> r.heap]]
       ELSE QueuePop([dict |-> q.dict, heap |-> r.heap])

\* remove() dropping the item from the dict without flagging its element
QueueRemove_NoFlag(q, item) == [q EXCEPT !.dict = @ \ {item}]

\* PriorityQueue.remove: the item's live element is flagged, the heap keeps it
QueueRemove(q, item) ==
    [dict |-> q.dict \ {item},
     heap |-> [i \in DOMAIN q.heap |->
                  IF q.heap[i].value = item /\ ~q.heap[i].removed
                  THEN [q.heap[i] EXCEPT !.removed = TRUE]
                  ELSE q.heap[i]]]

-----------------------------------------------------------------------------
(* RegressiveGOAPAStarSearch *)

\* _create_effect_table: effect key -> the actions declaring it, in list order
EffectToAction(action_list) ==
    [key \in UNION {EffectKeys(Action(action_list[i])) : i \in DOMAIN action_list} |->
        SelectSeq(action_list, LAMBDA a : key \in EffectKeys(Action(a)))]

\* get_neighbours keeping every action that declares the key
EffectSatisfies_Any(effect_value, goal_value) == TRUE

\* get_neighbours: the test that keeps an action for an unsatisfied key
EffectSatisfies(effect_value, goal_value) ==
    ~(effect_value # goal_value /\ effect_value # Ellipsis)

\* get_neighbours: the actions tried for one unsatisfied key, in table order
ActionsForKey(node, key, action_list) ==
    SelectSeq(EffectToAction(action_list)[key],
              LAMBDA a : EffectSatisfies(EffectValue(Action(a), key),
                                         node.goal_state.val[key]))

RECURSIVE ActionsTriedFrom(_, _, _, _)
ActionsTriedFrom(node, keys, i, action_list) ==
    IF i > Len(keys) THEN <<>>
    ELSE ActionsForKey(node, keys[i], action_list)
            \o ActionsTriedFrom(node, keys, i + 1, action_list)

\* get_neighbours: every (key, action) edge tried, in the order of the two loops
ActionsTried(node, action_list) ==
    ActionsTriedFrom(node, UnsatisfiedKeys(node), 1, action_list)

\* get_neighbours raises KeyError: an unsatisfied key that no action declares
\* (the effect table has no default), or apply_action raising
GetNeighboursRaises(node, world_state, action_list) ==
    \/ \E i \in DOMAIN UnsatisfiedKeys(node) :
          UnsatisfiedKeys(node)[i] \notin DOMAIN EffectToAction(action_list)
    \/ /\ \A i \in DOMAIN UnsatisfiedKeys(node) :
              UnsatisfiedKeys(node)[i] \in DOMAIN EffectToAction(action_list)
       /\ \E i \in DOMAIN ActionsTried(node, action_list) :
              ApplyActionRaises(node, Action(ActionsTried(node, action_list)[i]))

\* get_neighbours: the actions apply_action is called with, in order, up to
\* the end of the loops or the KeyError that ends them
RECURSIVE AppliedFrom(_, _, _, _)
AppliedFrom(node, keys, i, action_list) ==
    IF i > Len(keys) THEN <<>>
    ELSE IF keys[i] \notin DOMAIN EffectToAction(action_list) THEN <<>>
    ELSE LET here == ActionsForKey(node, keys[i], action_list)
             raising == {j \in DOMAIN here : ApplyActionRaises(node, Action(here[j]))}
         IN IF raising # {}
            THEN SubSeq(here, 1, CHOOSE j \in raising : \A k \in raising : j <= k)
            ELSE here \o AppliedFrom(node, keys, i + 1, action_list)

RECURSIVE WorldAfterApplying(_, _, _, _)
WorldAfterApplying(node, world_state, applied, i) ==
    IF i > Len(applied) THEN world_state
    ELSE WorldAfterApplying(node,
                            WorldAfterApplyAction(node, world_state, Action(applied[i])),
                            applied, i + 1)

\* the WorldState dict after get_neighbours(node), returning or raising
WorldAfterGetNeighbours(node, world_state, action_list) ==
    WorldAfterApplying(node, world_state,
                       AppliedFrom(node, UnsatisfiedKeys(node), 1, action_list), 1)

\* apply_action writing into the dicts of the node it was called on
CopyOf_SameDict(owner) == owner

\* dict.copy(): the dict the writes of apply_action go to is a new one, the
\* child's, whoever owns the dict copied
CopyOf(owner) == "child"

\* the node apply_action was called on, as the call leaves it
NodeAfterApplyAction(node, world_state, action) ==
    LET child == ApplyAction(node, world_state, action)
    IN [node EXCEPT
          !.current_state = IF CopyOf("parent") = "parent" THEN child.current_state ELSE @,
          !.goal_state = IF CopyOf("parent") = "parent" THEN child.goal_state ELSE @]

RECURSIVE NodeAfterApplying(_, _, _, _)
NodeAfterApplying(node, world_state, applied, i) ==
    IF i > Len(applied) THEN node
    ELSE NodeAfterApplying(NodeAfterApplyAction(node, world_state, Action(applied[i])),
                           world_state, applied, i + 1)

\* the node get_neighbours was called on, once get_neighbours has returned
NodeAfterGetNeighbours(node, world_state, action_list) ==
    NodeAfterApplying(node, world_state, ActionsTried(node, action_list), 1)

\* _key_action_precedence
KeyActionPrecedence(node) == Action(node.action).precedence

\* list.sort(key=...): stable, by insertion
RECURSIVE InsertSorted(_, _)
InsertSorted(sorted, node) ==
    IF sorted = <<>> THEN <<node>>
    ELSE IF KeyActionPrecedence(sorted[Len(sorted)]) <= KeyActionPrecedence(node)
         THEN Append(sorted, node)
         ELSE Append(InsertSorted(SubSeq(sorted, 1, Len(sorted) - 1), node),
                     sorted[Len(sorted)])

RECURSIVE SortByPrecedenceFrom(_, _, _)
SortByPrecedenceFrom(list, i, sorted) ==
    IF i > Len(list) THEN sorted
    ELSE SortByPrecedenceFrom(list, i + 1, InsertSorted(sorted, list[i]))

SortByPrecedence(list) == SortByPrecedenceFrom(list, 1, <<>>)

\* get_neighbours appending every neighbour, whatever the procedural precondition
RECURSIVE NeighboursFrom_Unchecked(_, _, _, _)
NeighboursFrom_Unchecked(node, world_state, tried, i) ==
    IF i > Len(tried) THEN <<>>
    ELSE <<ApplyAction(node, world_state, Action(tried[i]))>>
         \o NeighboursFrom_Unchecked(node, world_state, tried, i + 1)

RECURSIVE NeighboursFrom(_, _, _, _)
NeighboursFrom(node, world_state, tried, i) ==
    IF i > Len(tried) THEN <<>>
    ELSE LET neighbour == ApplyAction(node, world_state, Action(tried[i]))
             rest == NeighboursFrom(node, world_state, tried, i + 1)
         IN IF CheckProceduralPrecondition(Action(tried[i]), Services(neighbour), TRUE)
            THEN <<neighbour>> \o rest
            ELSE rest

\* RegressiveGOAPAStarSearch.get_neighbours
GetNeighbours(node, world_state, action_list) ==
    SortByPrecedence(NeighboursFrom(node, world_state, ActionsTried(node, action_list), 1))

\* get_h_score
GetHScore(node) == Len(UnsatisfiedKeys(node))

\* get_g_score counting steps instead of asking the action for its cost
GetGScore_UnitCost(node, neighbour) == 1

\* get_g_score / RegressiveGOAPAStarNode.compute_cost
GetGScore(node, neighbour) == GetCost(Action(neighbour.action), Services(neighbour))

-----------------------------------------------------------------------------
(* AStarAlgorithm.find_path and RegressivePlanner.find_plan *)

\* AStarAlgorithm.reconstruct_path: start ... node, as node identities
RECURSIVE PathTo(_, _)
PathTo(n, parent_map) ==
    IF n \in DOMAIN parent_map THEN Append(PathTo(parent_map[n], parent_map), n)
    ELSE <<n>>

Reverse(s) == [i \in 1..Len(s) |-> s[Len(s) + 1 - i]]

\* RegressiveGOAPAStarSearch.reconstruct_path
ReconstructPath(n, parent_map) == Reverse(PathTo(n, parent_map))

\* RegressivePlanner._create_plan_steps
RECURSIVE CreatePlanStepsFrom(_, _, _)
CreatePlanStepsFrom(path, i, all_nodes) ==
    IF i > Len(path) \/ all_nodes[path[i]].action = NoAction THEN <<>>
    ELSE <<[action |-> all_nodes[path[i]].action, services |-> Services(all_nodes[path[i]])]>>
            \o CreatePlanStepsFrom(path, i + 1, all_nodes)

CreatePlanSteps(path, all_nodes) == CreatePlanStepsFrom(path, 1, all_nodes)

\* the loop body of find_path for the neighbours of current, over the record
\* [nodes, parents, g, f, q]; a neighbour is a new object, its identity is its index
RECURSIVE VisitNeighboursFrom(_, _, _, _)
VisitNeighboursFrom(st, current, neighbours, i) ==
    IF i > Len(neighbours) THEN st
    ELSE LET neighbour == Len(st.nodes) + 1
             all == Append(st.nodes, neighbours[i])
             tentative_g_score == st.g[current] + GetGScore(st.nodes[current], neighbours[i])
             tentative_is_better ==
                 neighbour \notin DOMAIN st.g \/ tentative_g_score < st.g[neighbour]
             f_score == tentative_g_score + GetHScore(neighbours[i])
         IN IF neighbour \in st.closed
               \/ (QueueContains(st.q, neighbour) /\ ~tentative_is_better)
            THEN VisitNeighboursFrom([st EXCEPT !.nodes = all], current, neighbours, i + 1)
            ELSE VisitNeighboursFrom(
                    [nodes |-> all,
                     parents |-> (neighbour :> current) @@ st.parents,
                     g |-> (neighbour :> tentative_g_score) @@ st.g,
                     f |-> (neighbour :> f_score) @@ st.f,
                     q |-> QueueAdd(st.q, neighbour, f_score),
                     closed |-> st.closed],
                    current, neighbours, i + 1)

EmptyMap == [n \in {} |-> 0]

\* no graph: the search is a planner's, over the nodes it creates
NoGraph == [cost |-> EmptyMap, h |-> EmptyMap]

\* the worlds, action pools and goals find_plan is run on
Scenarios ==
    { [world |-> [k \in {"is_spooky", "is_undead"} |-> "False"],
       pool |-> {"BecomeUndead", "Haunt"},
       goals |-> {DictOf(<< <<"is_spooky", "True">> >>),
                  DictOf(<< <<"is_undead", "True">> >>)}],
      [world |-> [k \in {"age"} |-> "1"],
       pool |-> {"BecomeTwo"},
       goals |-> {DictOf(<< <<"age", "2">> >>), DictOf(<< <<"age", "1">> >>)}],
      [world |-> [k \in {"FIRST", "SECOND", "THIRD", "FOURTH"} |-> "False"],
       pool |-> {"Action1", "Action2", "Action3"},
       goals |-> {DictOf(<< <<"THIRD", "True">> >>), DictOf(<< <<"SECOND", "True">> >>),
                  DictOf(<< <<"FOURTH", "True">> >>)}],
      [world |-> ("chant_incantation" :> "None") @@ ("is_undead" :> "False")
                    @@ ("is_spooky" :> "False"),
       pool |-> {"ChantIncantation", "ChantSpecificIncantation", "HauntWithChant",
                 "HauntChanting"},
       goals |-> {DictOf(<< <<"chant_incantation", SPOOKY_INCANTATION>> >>),
                  DictOf(<< <<"chant_incantation", INCANTATION>> >>),
                  DictOf(<< <<"is_spooky", "True">> >>)}],
      [world |-> ("is_spooky" :> "False") @@ ("chant_incantation" :> "None"),
       pool |-> {"HauntWithMagic", "HauntWithHocus", "ChantAnything", "PerformMagic"},
       goals |-> {DictOf(<< <<"is_spooky", "True">> >>),
                  DictOf(<< <<"performs_magic", "abracadabra">> >>)}],
      [world |-> [k \in {"age"} |-> "3"],
       pool |-> {"BecomeTwo", "BecomeOne"},
       goals |-> {DictOf(<< <<"age", "2">> >>)}],
      [world |-> [k \in {"a", "b", "c"} |-> "0"],
       pool |-> {"SetA", "SetALate", "SetACostly", "SetB", "SetBLate"},
       goals |-> {DictOf(<< <<"a", "1">> >>), DictOf(<< <<"b", "1">> >>),
                  DictOf(<< <<"a", "1">>, <<"b", "1">> >>),
                  DictOf(<< <<"b", "1">>, <<"a", "1">> >>),
                  DictOf(<< <<"a", "2">> >>), DictOf(<< <<"c", "1">> >>)}],
      [world |-> [k \in {"a", "b"} |-> "0"],
       pool |-> {"SetA", "SetB", "SetAUnlessB", "SetAIfB", "SetBIfA"},
       goals |-> {DictOf(<< <<"a", "1">> >>), DictOf(<< <<"b", "1">> >>),
                  DictOf(<< <<"a", "1">>, <<"b", "1">> >>),
                  DictOf(<< <<"b", "1">>, <<"a", "1">> >>)}],
      [world |-> ("chant_incantation" :> "silence") @@ ("is_spooky" :> "False"),
       pool |-> {"ChantUnlessSpooky", "ChantIncantation", "HauntWithChant",
                 "HauntUnplanned", "HauntWithAnyChant", "HauntForwarding"},
       goals |-> {DictOf(<< <<"chant_incantation", SPOOKY_INCANTATION>> >>),
                  DictOf(<< <<"chant_incantation", INCANTATION>> >>),
                  DictOf(<< <<"is_spooky", "True">> >>)}] }

\* the lists of at most n distinct actions of a pool
ActionLists(pool, n) ==
    {s \in UNION {[1..k -> pool] : k \in 0..n} :
        \A i, j \in DOMAIN s : i # j => s[i] # s[j]}

\* the goals asked of a planner built on this world and these actions
GoalsFor(world_state, action_list) ==
    UNION {sc.goals : sc \in {s \in Scenarios :
              /\ s.world = world_state
              /\ \A i \in DOMAIN action_list : action_list[i] \in s.pool}}

\* RegressivePlanner(world_state, actions)
Init ==
    /\ \E sc \in Scenarios :
          /\ world = sc.world
          /\ actions \in ActionLists(Defined(sc.pool), MaxActions)
    /\ goal = EmptyDict
    /\ pc = "idle"
    /\ nodes = <<>>
    /\ parents = EmptyMap
    /\ g_scores = EmptyMap
    /\ f_scores = EmptyMap
    /\ candidates = EmptyQueue
    /\ rejects = {}
    /\ expanded = <<>>
    /\ plan = <<>>
    /\ plan_steps = <<>>
    /\ plan_steps_it = 0
    /\ current_plan_step = 0
    /\ log = <<>>
    /\ calls = 0
    /\ goals = <<>>
    /\ planner = {}
    /\ generator = "none"
    /\ graph = NoGraph

\* find_plan(goal_state) up to the first iteration of find_path
FindPlan ==
    /\ pc = "idle"
    /\ \E goal_state \in GoalsFor(world, actions) :
          /\ goal' = goal_state
          /\ IF \E i \in DOMAIN goal_state.keys : goal_state.keys[i] \notin DOMAIN world
             THEN /\ pc' = "keyerror"
                  /\ UNCHANGED <<nodes, g_scores, f_scores, candidates>>
             ELSE LET initial_state == [k \in DOMAIN goal_state.val |-> world[k]]
                      start == Node(initial_state, goal_state, NoAction)
                  IN /\ nodes' = <<start>>
                     /\ g_scores' = (1 :> 0)
                     /\ f_scores' = (1 :> GetHScore(start))
                     /\ candidates' = QueueAdd(EmptyQueue, 1, GetHScore(start))
                     /\ pc' = "search"
    /\ UNCHANGED <<world, actions, parents, rejects, expanded, plan, execVars, directorVars, graph>>

\* find_path: the open set is empty, PathNotFoundException
PathNotFound ==
    /\ pc = "search"
    /\ ~QueueBool(candidates)
    /\ pc' = "notfound"
    /\ UNCHANGED <<world, actions, goal, nodes, parents, g_scores, f_scores,
                   candidates, rejects, expanded, plan, execVars, directorVars, graph>>

\* find_path: the popped node is finished; find_plan returns the plan steps
Finish ==
    /\ pc = "search"
    /\ QueueBool(candidates)
    /\ LET popped == QueuePop(candidates)
           current == popped.value
       IN /\ IsSatisfied(nodes[current])
          /\ candidates' = popped.queue
          /\ plan' = CreatePlanSteps(ReconstructPath(current, parents), nodes)
          /\ expanded' = Append(expanded, current)
          /\ pc' = "found"
    /\ UNCHANGED <<world, actions, goal, nodes, parents, g_scores, f_scores, rejects,
                   execVars, directorVars, graph>>

\* find_path: the popped node is not finished and get_neighbours raises KeyError
ExpandRaises ==
    /\ pc = "search"
    /\ QueueBool(candidates)
    /\ LET popped == QueuePop(candidates)
           current == popped.value
       IN /\ ~IsSatisfied(nodes[current])
          /\ GetNeighboursRaises(nodes[current], world, actions)
          /\ candidates' = popped.queue
          /\ rejects' = rejects \cup {current}
          /\ expanded' = Append(expanded, current)
          /\ world' = WorldAfterGetNeighbours(nodes[current], world, actions)
          /\ pc' = "keyerror"
    /\ UNCHANGED <<actions, goal, nodes, parents, g_scores, f_scores, plan, execVars, directorVars, graph>>

\* find_path: one iteration that expands the popped node
Expand ==
    /\ pc = "search"
    /\ QueueBool(candidates)
    /\ LET popped == QueuePop(candidates)
           current == popped.value
       IN /\ ~IsSatisfied(nodes[current])
          /\ ~GetNeighboursRaises(nodes[current], world, actions)
          /\ LET neighbours == GetNeighbours(nodes[current], world, actions)
                 st == VisitNeighboursFrom(
                          [nodes |-> nodes, parents |-> parents, g |-> g_scores,
                           f |-> f_scores, q |-> popped.queue,
                           closed |-> rejects \cup {current}],
                          current, neighbours, 1)
             IN /\ Len(nodes) + Len(neighbours) <= MaxNodes
                /\ nodes' = [st.nodes EXCEPT
                                ![current] = NodeAfterGetNeighbours(nodes[current], world,
                                                                    actions)]
                /\ parents' = st.parents
                /\ g_scores' = st.g
                /\ f_scores' = st.f
                /\ candidates' = st.q
                /\ rejects' = st.closed
                /\ expanded' = Append(expanded, current)
          /\ world' = WorldAfterGetNeighbours(nodes[current], world, actions)
    \* the start node holds the very dict find_plan was given
    /\ goal' = nodes'[1].goal_state
    /\ UNCHANGED <<actions, pc, plan, execVars, directorVars, graph>>

\* the model abandons a search that would create more than MaxNodes nodes
Cutoff ==
    /\ pc = "search"
    /\ QueueBool(candidates)
    /\ LET popped == QueuePop(candidates)
           current == popped.value
       IN /\ ~IsSatisfied(nodes[current])
          /\ ~GetNeighboursRaises(nodes[current], world, actions)
          /\ Len(nodes) + Len(GetNeighbours(nodes[current], world, actions)) > MaxNodes
    /\ pc' = "cutoff"
    /\ UNCHANGED <<world, actions, goal, nodes, parents, g_scores, f_scores,
                   candidates, rejects, expanded, plan, execVars, directorVars, graph>>

Next ==
    \/ FindPlan
    \/ PathNotFound
    \/ Finish
    \/ ExpandRaises
    \/ Expand
    \/ Cutoff

Spec == Init /\ [][Next]_vars

\* the strict ancestors of node n along the parent map of find_path
AncestorsOf(n, parent_map) ==
    LET path == PathTo(n, parent_map)
    IN {path[i] : i \in 1..(Len(path) - 1)}

\* A search that is certain to run forever: the open set holds one node only,
\* and that node has the current_state and goal_state of one of its expanded
\* ancestors.  Every other node was popped and was not a goal; nodes hash by
\* identity, so the closed set never matches a new neighbour, and the subtree
\* below the node repeats the subtree below that ancestor without end.
Recurs ==
    /\ pc = "search"
    /\ \E n \in candidates.dict :
          /\ candidates.dict = {n}
          /\ \E m \in AncestorsOf(n, parents) :
                /\ nodes[m].current_state = nodes[n].current_state
                /\ nodes[m].goal_state = nodes[n].goal_state

\* find_path's loop body, followed until the search ends or is seen to recur
RunExpand == ~Recurs /\ Expand

NextRuns ==
    \/ FindPlan
    \/ PathNotFound
    \/ Finish
    \/ ExpandRaises
    \/ RunExpand

\* what a step of find_path's loop does to pc and to the record of expansions:
\* every step of NextRuns from a search is one, and one is possible in every
\* search that does not recur
LoopRuns ==
    /\ pc = "search"
    /\ ~Recurs
    /\ pc' \in {"search", "found", "notfound", "keyerror"}
    /\ expanded' \in {expanded} \cup {Append(expanded, n) : n \in candidates.dict}

\* find_plan runs to completion once called: find_path is a plain loop that
\* nothing suspends, so its next step is always taken
SpecRuns == Init /\ [][NextRuns]_vars /\ WF_<<pc, expanded>>(LoopRuns)

-----------------------------------------------------------------------------
(* Executing a plan on a state, and what a plan is checked against *)

\* Action.apply_effects(world_state, goal_state), a service effect taking its
\* value from goal_state (for a PlanStep: its services table)
RECURSIVE ApplyEffectsToWorldFrom(_, _, _, _)
ApplyEffectsToWorldFrom(i, world_state, action, goal_state) ==
    IF i > Len(action.effects) THEN world_state
    ELSE LET key == action.effects[i].key
             value == IF action.effects[i].value = Ellipsis
                      THEN goal_state[key] ELSE action.effects[i].value
         IN ApplyEffectsToWorldFrom(i + 1, (key :> value) @@ world_state, action, goal_state)

ApplyEffects(world_state, action, goal_state) ==
    ApplyEffectsToWorldFrom(1, world_state, action, goal_state)

\* the state after the first n steps of a plan
RECURSIVE StateAfter(_, _, _)
StateAfter(world_state, steps, n) ==
    IF n = 0 THEN world_state
    ELSE ApplyEffects(StateAfter(world_state, steps, n - 1),
                      Action(steps[n].action), steps[n].services)

\* GoalBase.is_satisfied on a goal dict
GoalHolds(world_state, goal_state) ==
    \A k \in DOMAIN goal_state.val : WorldGet(world_state, k) = goal_state.val[k]

Terminal == {"found", "notfound", "keyerror"}

\* every goal key is a key of the WorldState
GoalKeysKnown == DOMAIN goal.val \subseteq DOMAIN world

PlanActions == [i \in DOMAIN plan |-> plan[i].action]
ActionSet == {actions[i] : i \in DOMAIN actions}

\* the node a plan step was made from: path[i] of the reversed solution path
SolutionNode == expanded[Len(expanded)]
StepNode(i) == ReconstructPath(SolutionNode, parents)[i]

\* the values a service may be asked to take
ValueUniverse ==
    UNION {{a.effects[i].value : i \in DOMAIN a.effects} : a \in ActionClasses}
    \cup UNION {{a.preconditions[i].value : i \in {j \in DOMAIN a.preconditions :
                                                      ~a.preconditions[j].ref}} :
                a \in ActionClasses}
    \cup {goal.val[k] : k \in DOMAIN goal.val}

\* the states one forward execution of an action can lead to from s
ForwardSuccessors(s, action) ==
    {ApplyEffects(s, action, sv) :
        sv \in {b \in [ServiceNames(action) -> ValueUniverse \ {Ellipsis}] :
                  \A i \in DOMAIN action.preconditions :
                      LET pre == action.preconditions[i]
                      IN WorldGet(s, pre.key) = (IF pre.ref THEN b[pre.value] ELSE pre.value)}}

RECURSIVE ReachableStates(_, _, _)
ReachableStates(world_state, action_list, n) ==
    IF n = 0 THEN {world_state}
    ELSE LET before == ReachableStates(world_state, action_list, n - 1)
         IN before \cup UNION {ForwardSuccessors(s, Action(action_list[i])) :
                                  s \in before, i \in DOMAIN action_list}

\* the goal can be reached from the WorldState by executing actions forward
GoalReachable ==
    \E s \in ReachableStates(world, actions, MaxReachDepth) : GoalHolds(s, goal)

\* b needs something a produces
Feeds(a, b) == EffectKeys(Action(a)) \cap PreconditionKeys(Action(b)) # {}

RECURSIVE FedWithin(_, _)
FedWithin(a, n) ==
    IF n = 0 THEN {a}
    ELSE LET before == FedWithin(a, n - 1)
         IN before \cup {b \in ActionSet : \E x \in before : Feeds(x, b)}

\* the effect -> precondition dependency graph of the action list has no cycle
AcyclicActions ==
    \A a \in ActionSet :
        \A b \in FedWithin(a, Len(actions)) : ~Feeds(b, a)

-----------------------------------------------------------------------------
(* ActionPlan (goap/planner.py): the plan executor *)

\* update() threads the record [cur, it, world, log, ret]: current_plan_step,
\* the iterator position, the WorldState, the log, and the value returned
\* ("" while the loop goes on).  An event holds the WorldState as it is once
\* the event has happened.
Logged(st, call, ev, result) ==
    [st EXCEPT !.log = Append(@, [call |-> call, ev |-> ev, step |-> st.cur,
                                  result |-> result, world |-> st.world])]

\* update(): leave the step: on_exit, then always the effects
LeaveStep_AlwaysApplies(st, call) ==
    LET step == plan_steps[st.cur]
        exited == Logged(st, call, "on_exit", "")
    IN Logged([exited EXCEPT !.world = ApplyEffects(st.world, Action(step.action),
                                                    step.goal_state)],
              call, "apply_effects", "")

\* update(): leave the step: on_exit, then the effects if the action commits them
LeaveStep(st, call) ==
    LET step == plan_steps[st.cur]
        exited == Logged(st, call, "on_exit", "")
    IN IF Action(step.action).apply_effects_on_exit
       THEN Logged([exited EXCEPT !.world = ApplyEffects(st.world, Action(step.action),
                                                         step.goal_state)],
                   call, "apply_effects", "")
       ELSE exited

\* update(): the next step entered before its procedural precondition is looked at
EnterNextStep_EntersFirst(st, call, pre) ==
    IF st.it = Len(plan_steps)
    THEN [st EXCEPT !.ret = "success"]
    ELSE LET taken == [st EXCEPT !.it = @ + 1, !.cur = st.it + 1]
             entered == Logged(taken, call, "on_enter", "")
             checked == Logged(entered, call, "check_procedural_precondition",
                               IF pre[taken.cur] THEN "True" ELSE "False")
         IN IF ~pre[taken.cur] THEN [checked EXCEPT !.ret = "failure"] ELSE checked

\* update(): take the next step from the iterator, check its procedural
\* precondition (is_planning=False) and enter it
EnterNextStep(st, call, pre) ==
    IF st.it = Len(plan_steps)
    THEN [st EXCEPT !.ret = "success"]
    ELSE LET taken == [st EXCEPT !.it = @ + 1, !.cur = st.it + 1]
             checked == Logged(taken, call, "check_procedural_precondition",
                               IF pre[taken.cur] THEN "True" ELSE "False")
         IN IF ~pre[taken.cur]
            THEN [checked EXCEPT !.ret = "failure"]
            ELSE Logged(checked, call, "on_enter", "")

\* update(): the loop going on to the next step whatever the status polled
RECURSIVE UpdateLoop_IgnoresFailure(_, _, _, _)
UpdateLoop_IgnoresFailure(st, call, status, pre) ==
    LET polled == Logged(st, call, "get_status", status[st.cur])
        left == LeaveStep(polled, call)
        entered == EnterNextStep(IF st.cur # 0 THEN left ELSE st, call, pre)
    IN IF st.cur # 0 /\ status[st.cur] = "running"
       THEN [polled EXCEPT !.ret = "running"]
       ELSE IF entered.ret # "" THEN entered
            ELSE UpdateLoop_IgnoresFailure(entered, call, status, pre)

\* ActionPlan.update: the while loop; status and pre are what get_status and
\* check_procedural_precondition return for each step during this call
RECURSIVE UpdateLoop(_, _, _, _)
UpdateLoop(st, call, status, pre) ==
    LET polled == Logged(st, call, "get_status", status[st.cur])
        left == LeaveStep(polled, call)
        entered == EnterNextStep(IF st.cur # 0 THEN left ELSE st, call, pre)
    IN IF st.cur # 0 /\ status[st.cur] = "running"
       THEN [polled EXCEPT !.ret = "running"]
       ELSE IF st.cur # 0 /\ status[st.cur] # "success"
            THEN [left EXCEPT !.ret = status[st.cur]]
            ELSE IF entered.ret # "" THEN entered
                 ELSE UpdateLoop(entered, call, status, pre)

\* EvaluationState values an action's get_status returns
Statuses == {"running", "success", "failure"}

\* the ActionPlanStep values plans are made of
ExecSteps ==
    { [action |-> "BecomeUndead", goal_state |-> EmptyFn],
      [action |-> "Haunt", goal_state |-> EmptyFn],
      [action |-> "ChaseTarget", goal_state |-> EmptyFn],
      [action |-> "ChantIncantation",
       goal_state |-> ("chant_incantation" :> SPOOKY_INCANTATION)] }

ExecWorld ==
    ("is_spooky" :> "False") @@ ("is_undead" :> "False")
        @@ ("in_weapons_range" :> "False") @@ ("chant_incantation" :> "None")

\* ActionPlan(plan_steps)
InitPlan ==
    /\ world = ExecWorld
    /\ plan_steps \in UNION {[1..k -> ExecSteps] : k \in 0..MaxPlanLen}
    /\ plan_steps_it = 0
    /\ current_plan_step = 0
    /\ log = <<>>
    /\ calls = 0
    /\ goals = <<>>
    /\ planner = {}
    /\ generator = "none"
    /\ graph = NoGraph
    /\ actions = <<>>
    /\ goal = EmptyDict
    /\ pc = "idle"
    /\ nodes = <<>>
    /\ parents = EmptyMap
    /\ g_scores = EmptyMap
    /\ f_scores = EmptyMap
    /\ candidates = EmptyQueue
    /\ rejects = {}
    /\ expanded = <<>>
    /\ plan = <<>>

\* ActionPlan.update(world_state)
Update ==
    /\ calls < MaxCalls
    /\ \E status \in [DOMAIN plan_steps -> Statuses],
          pre \in [DOMAIN plan_steps -> BOOLEAN] :
          LET st == UpdateLoop([cur |-> current_plan_step, it |-> plan_steps_it,
                                world |-> world, log |-> log, ret |-> ""],
                               calls + 1, status, pre)
          IN /\ world' = st.world
             /\ current_plan_step' = st.cur
             /\ plan_steps_it' = st.it
             /\ log' = Logged(st, calls + 1, "return", st.ret).log
    /\ calls' = calls + 1
    /\ UNCHANGED <<plan_steps, searchVars, directorVars, graph>>

\* ActionPlan.cancel(world_state)
Cancel ==
    /\ calls < MaxCalls
    /\ LET st == [cur |-> current_plan_step, it |-> plan_steps_it, world |-> world,
                  log |-> log, ret |-> ""]
           asked == Logged(st, calls + 1, "cancel", "")
       IN IF current_plan_step # 0
          THEN /\ log' = Logged(asked, calls + 1, "on_exit", "").log
               /\ current_plan_step' = 0
          ELSE /\ log' = asked.log
               /\ current_plan_step' = current_plan_step
    /\ plan_steps_it' = Len(plan_steps)
    /\ calls' = calls + 1
    /\ UNCHANGED <<world, plan_steps, searchVars, directorVars, graph>>

NextPlan ==
    \/ Update
    \/ Cancel

SpecPlan == InitPlan /\ [][NextPlan]_vars

-----------------------------------------------------------------------------
(* PriorityQueue driven by its callers *)

\* the items queued and the values the key function takes
Items == {1, 2, 3}
Scores == {1, 2}

\* a call on the queue, as the caller sees it: the score is key(item) at the
\* time of an add, the score of the returned element for a pop; key is what
\* the key function returns for each item when a pop is made
Called(op, item, score, raised) ==
    [op |-> op, item |-> item, score |-> score, raised |-> raised,
     key |-> IF op = "pop" /\ ~raised THEN f_scores ELSE EmptyFn]

\* PriorityQueue(key=lambda n: f_scores[n])
InitQueue ==
    /\ candidates = EmptyQueue
    /\ f_scores \in [Items -> Scores]
    /\ log = <<>>
    /\ world = EmptyFn
    /\ actions = <<>>
    /\ goal = EmptyDict
    /\ pc = "idle"
    /\ nodes = <<>>
    /\ parents = EmptyMap
    /\ g_scores = EmptyMap
    /\ rejects = {}
    /\ expanded = <<>>
    /\ plan = <<>>
    /\ plan_steps = <<>>
    /\ plan_steps_it = 0
    /\ current_plan_step = 0
    /\ calls = 0
    /\ goals = <<>>
    /\ planner = {}
    /\ generator = "none"
    /\ graph = NoGraph

\* PriorityQueue.add(item)
Add ==
    /\ Len(log) < MaxOps
    /\ \E item \in Items :
          IF QueueAddRaises(candidates, item)
          THEN /\ log' = Append(log, Called("add", item, f_scores[item], TRUE))
               /\ UNCHANGED candidates
          ELSE /\ log' = Append(log, Called("add", item, f_scores[item], FALSE))
               /\ candidates' = QueueAdd(candidates, item, f_scores[item])
    /\ UNCHANGED <<world, actions, goal, pc, nodes, parents, g_scores, f_scores, rejects,
                   expanded, plan, plan_steps, plan_steps_it, current_plan_step, calls,
                   directorVars, graph>>

\* PriorityQueue.remove(item)
Remove ==
    /\ Len(log) < MaxOps
    /\ \E item \in Items :
          IF QueueRemoveRaises(candidates, item)
          THEN /\ log' = Append(log, Called("remove", item, 0, TRUE))
               /\ UNCHANGED candidates
          ELSE /\ log' = Append(log, Called("remove", item, 0, FALSE))
               /\ candidates' = QueueRemove(candidates, item)
    /\ UNCHANGED <<world, actions, goal, pc, nodes, parents, g_scores, f_scores, rejects,
                   expanded, plan, plan_steps, plan_steps_it, current_plan_step, calls,
                   directorVars, graph>>

\* PriorityQueue.pop(); when it raises, the flagged entries have been popped
Pop ==
    /\ Len(log) < MaxOps
    /\ IF QueuePopRaises(candidates)
       THEN /\ log' = Append(log, Called("pop", 0, 0, TRUE))
            /\ candidates' = [candidates EXCEPT !.heap = <<>>]
       ELSE LET popped == QueuePop(candidates)
            IN /\ log' = Append(log, Called("pop", popped.value, popped.score, FALSE))
               /\ candidates' = popped.queue
    /\ UNCHANGED <<world, actions, goal, pc, nodes, parents, g_scores, f_scores, rejects,
                   expanded, plan, plan_steps, plan_steps_it, current_plan_step, calls,
                   directorVars, graph>>

\* a change of the key function's value reaching the elements already queued
SetFScore_Rescores ==
    /\ \E item \in Items, score \in Scores :
          /\ f_scores[item] # score
          /\ f_scores' = [f_scores EXCEPT ![item] = score]
          /\ candidates' = [candidates EXCEPT !.heap =
                                [i \in DOMAIN @ |->
                                    IF @[i].value = item /\ ~@[i].removed
                                    THEN [@[i] EXCEPT !.score = score] ELSE @[i]]]
    /\ UNCHANGED <<world, actions, goal, pc, nodes, parents, g_scores, rejects,
                   expanded, plan, plan_steps, plan_steps_it, current_plan_step, log, calls,
                   directorVars, graph>>

\* the caller changes what the key function returns for an item
SetFScore ==
    /\ \E item \in Items, score \in Scores :
          /\ f_scores[item] # score
          /\ f_scores' = [f_scores EXCEPT ![item] = score]
    /\ UNCHANGED <<world, actions, goal, pc, nodes, parents, g_scores, candidates, rejects,
                   expanded, plan, plan_steps, plan_steps_it, current_plan_step, log, calls,
                   directorVars, graph>>

NextQueue ==
    \/ Add
    \/ Remove
    \/ Pop
    \/ SetFScore

SpecQueue == InitQueue /\ [][NextQueue]_vars

-----------------------------------------------------------------------------
(* Director (goap/director.py) *)

\* a goal class: its target state, its priority, and the WorldState values
\* outside which its get_relevance returns 0
GoalClass(n, st, p) == [name |-> n, state |-> st, priority |-> p, only_if |-> EmptyFn]

ReachA == GoalClass("ReachA", ("a" :> "1"), 2)
ReachB == GoalClass("ReachB", ("b" :> "1"), 1)
ReachAToo == GoalClass("ReachAToo", ("a" :> "1"), 1)
Rest == GoalClass("Rest", ("a" :> "0"), 0)
ReachBOnceA == [GoalClass("ReachBOnceA", ("b" :> "1"), 3) EXCEPT !.only_if = ("a" :> "1")]

GoalClasses == {ReachA, ReachB, ReachAToo, Rest, ReachBOnceA}

\* the goal instance of a given class name
Goal(name) == CHOOSE g \in GoalClasses : g.name = name

NoGoal == "None"
NoPlan == [goal |-> NoGoal, id |-> 0]

\* the values the WorldState takes
Worlds == [{"a", "b"} -> {"0", "1"}]

\* goal.get_relevance(world_state)
GetRelevance(g, world_state) ==
    IF \A k \in DOMAIN g.only_if : world_state[k] = g.only_if[k]
    THEN g.priority ELSE 0

\* goal.is_satisfied(world_state)
GoalIsSatisfied(g, world_state) ==
    \A k \in DOMAIN g.state : world_state[k] = g.state[k]

\* sorted_goals: the goals kept, in list order
Relevant(goal_list, world_state) ==
    SelectSeq(goal_list, LAMBDA g : ~(GetRelevance(Goal(g), world_state) <= 0))

\* sorted_goals raises TypeError: sorting the (relevance, goal) pairs compares
\* two goals when their relevances are equal, and goals have no order
SortedGoalsRaises(goal_list, world_state) ==
    LET kept == Relevant(goal_list, world_state)
    IN \E i, j \in DOMAIN kept :
          /\ i # j
          /\ GetRelevance(Goal(kept[i]), world_state) = GetRelevance(Goal(kept[j]), world_state)

\* list.sort(reverse=True) on pairs of distinct relevances, by insertion
RECURSIVE InsertByRelevance(_, _, _)
InsertByRelevance(sorted, g, world_state) ==
    IF sorted = <<>> THEN <<g>>
    ELSE IF GetRelevance(Goal(sorted[Len(sorted)]), world_state)
               > GetRelevance(Goal(g), world_state)
         THEN Append(sorted, g)
         ELSE Append(InsertByRelevance(SubSeq(sorted, 1, Len(sorted) - 1), g, world_state),
                     sorted[Len(sorted)])

RECURSIVE SortGoalsFrom(_, _, _, _)
SortGoalsFrom(kept, i, sorted, world_state) ==
    IF i > Len(kept) THEN sorted
    ELSE SortGoalsFrom(kept, i + 1, InsertByRelevance(sorted, kept[i], world_state),
                       world_state)

\* Director.sorted_goals
SortedGoals(goal_list, world_state) ==
    SortGoalsFrom(Relevant(goal_list, world_state), 1, <<>>, world_state)

\* planner.find_plan_for_goal(goal.state) raises PathNotFoundException
PlannerRaises(planner_, g) == g \notin planner_

\* find_best_plan planning for a goal without looking whether it is satisfied
RECURSIVE FindBestPlanFrom_NoSatisfiedCheck(_, _, _, _, _)
FindBestPlanFrom_NoSatisfiedCheck(sorted, i, world_state, planner_, planned) ==
    IF i > Len(sorted) THEN [planned |-> planned, goal |-> NoGoal]
    ELSE IF PlannerRaises(planner_, sorted[i])
         THEN FindBestPlanFrom_NoSatisfiedCheck(sorted, i + 1, world_state, planner_,
                                                Append(planned, sorted[i]))
         ELSE [planned |-> Append(planned, sorted[i]), goal |-> sorted[i]]

\* find_best_plan giving up at the first PathNotFoundException
RECURSIVE FindBestPlanFrom_StopsAtPathNotFound(_, _, _, _, _)
FindBestPlanFrom_StopsAtPathNotFound(sorted, i, world_state, planner_, planned) ==
    IF i > Len(sorted) THEN [planned |-> planned, goal |-> NoGoal]
    ELSE IF GoalIsSatisfied(Goal(sorted[i]), world_state)
         THEN FindBestPlanFrom_StopsAtPathNotFound(sorted, i + 1, world_state, planner_,
                                                   planned)
         ELSE IF PlannerRaises(planner_, sorted[i])
              THEN [planned |-> Append(planned, sorted[i]), goal |-> NoGoal]
              ELSE [planned |-> Append(planned, sorted[i]), goal |-> sorted[i]]

\* find_best_plan: the loop over sorted_goals from its i-th goal; planned is
\* the goals the planner was invoked for so far, goal the one it returned a
\* plan for (NoGoal: NoPlanFoundError)
RECURSIVE FindBestPlanFrom(_, _, _, _, _)
FindBestPlanFrom(sorted, i, world_state, planner_, planned) ==
    IF i > Len(sorted) THEN [planned |-> planned, goal |-> NoGoal]
    ELSE IF GoalIsSatisfied(Goal(sorted[i]), world_state)
         THEN FindBestPlanFrom(sorted, i + 1, world_state, planner_, planned)
         ELSE IF PlannerRaises(planner_, sorted[i])
              THEN FindBestPlanFrom(sorted, i + 1, world_state, planner_,
                                    Append(planned, sorted[i]))
              ELSE [planned |-> Append(planned, sorted[i]), goal |-> sorted[i]]

\* the values plan.update() returns
PlanStatuses == {"running", "success", "failure", "cancelled"}

\* the generator resumed at the top of the outer loop whatever it yielded from
ResumeAt_AlwaysSelects(position) == "find_best_plan"

\* next(self._generator): where the generator goes on from
ResumeAt(position) ==
    IF position = "yield_running" THEN "plan_update" ELSE "find_best_plan"

\* a call the Director receives or makes, with the WorldState at that time
Event(ev, sorted, planned, g, id, status) ==
    [ev |-> ev, tick |-> calls, world |-> world, sorted |-> sorted, planned |-> planned,
     goal |-> g, id |-> id, status |-> status]

\* Director(planner, world_state, goals)
InitDirector ==
    /\ world \in Worlds
    /\ goals \in ActionLists({g.name : g \in GoalClasses}, MaxGoals)
    /\ planner \in SUBSET {goals[i] : i \in DOMAIN goals}
    /\ generator = "created"
    /\ graph = NoGraph
    /\ plan = NoPlan
    /\ log = <<>>
    /\ calls = 0
    /\ actions = <<>>
    /\ goal = EmptyDict
    /\ pc = "idle"
    /\ nodes = <<>>
    /\ parents = EmptyMap
    /\ g_scores = EmptyMap
    /\ f_scores = EmptyMap
    /\ candidates = EmptyQueue
    /\ rejects = {}
    /\ expanded = <<>>
    /\ plan_steps = <<>>
    /\ plan_steps_it = 0
    /\ current_plan_step = 0

\* Director.update(): the caller resumes the generator; a generator ended by
\* an exception raises StopIteration
DirectorUpdate ==
    /\ calls < MaxTicks
    /\ generator \in {"created", "yield_no_plan", "yield_running", "raised"}
    /\ calls' = calls + 1
    /\ IF generator = "raised"
       THEN /\ log' = log \o << [Event("update", <<>>, <<>>, plan.goal, plan.id, "")
                                    EXCEPT !.tick = calls + 1],
                                [Event("raise", <<>>, <<>>, NoGoal, 0, "StopIteration")
                                    EXCEPT !.tick = calls + 1] >>
            /\ UNCHANGED generator
       ELSE /\ log' = Append(log, [Event("update", <<>>, <<>>, plan.goal, plan.id, "")
                                      EXCEPT !.tick = calls + 1])
            /\ generator' = ResumeAt(generator)
    /\ UNCHANGED <<world, actions, goal, pc, nodes, parents, g_scores, f_scores, candidates,
                   rejects, expanded, plan, plan_steps, plan_steps_it, current_plan_step,
                   goals, planner, graph>>

\* _execution_loop: plan = self.find_best_plan(), and the yield that follows
\* NoPlanFoundError
FindBestPlan ==
    /\ generator = "find_best_plan"
    /\ Len(log) < MaxEvents
    /\ IF SortedGoalsRaises(goals, world)
       THEN /\ log' = Append(log, Event("raise", <<>>, <<>>, NoGoal, 0, "TypeError"))
            /\ generator' = "raised"
            /\ UNCHANGED plan
       ELSE LET sorted == SortedGoals(goals, world)
                found == FindBestPlanFrom(sorted, 1, world, planner, <<>>)
            IN IF found.goal = NoGoal
               THEN /\ log' = Append(log, Event("find_best_plan", sorted, found.planned,
                                                NoGoal, 0, "NoPlanFoundError"))
                    /\ generator' = "yield_no_plan"
                    /\ UNCHANGED plan
               ELSE /\ log' = Append(log, Event("find_best_plan", sorted, found.planned,
                                                found.goal, Len(log) + 1, ""))
                    /\ generator' = "plan_update"
                    /\ plan' = [goal |-> found.goal, id |-> Len(log) + 1]
    /\ UNCHANGED <<world, actions, goal, pc, nodes, parents, g_scores, f_scores, candidates,
                   rejects, expanded, plan_steps, plan_steps_it, current_plan_step, calls,
                   goals, planner, graph>>

\* _execution_loop: status = plan.update(), the plan writing its goal into the
\* WorldState or not; the yield when it is running, else back to the outer loop
PlanUpdate ==
    /\ generator = "plan_update"
    /\ Len(log) < MaxEvents
    /\ \E status \in PlanStatuses, written \in BOOLEAN :
          /\ world' = IF written THEN Goal(plan.goal).state @@ world ELSE world
          /\ log' = Append(log, [Event("plan_update", <<>>, <<>>, plan.goal, plan.id, status)
                                    EXCEPT !.world = world'])
          /\ generator' = IF status = "running" THEN "yield_running" ELSE "find_best_plan"
    /\ UNCHANGED <<actions, goal, pc, nodes, parents, g_scores, f_scores, candidates,
                   rejects, expanded, plan, plan_steps, plan_steps_it, current_plan_step,
                   calls, goals, planner, graph>>

\* between two ticks something other than the Director writes the WorldState
Sense ==
    /\ generator \in {"created", "yield_no_plan", "yield_running", "old_returned"}
    /\ calls < MaxTicks
    /\ \E w \in Worlds : w # world /\ world' = w
    /\ UNCHANGED <<searchVars, execVars, directorVars, graph>>

NextDirector ==
    \/ DirectorUpdate
    \/ FindBestPlan
    \/ PlanUpdate
    \/ Sense

SpecDirector == InitDirector /\ [][NextDirector]_vars

\* ---------------------------------------------------------------------------
\* The older Director (class Director of goap/planner.py). It keeps the plan
\* in self._plan and has no generator: the variable generator holds the place
\* its update() has reached, under names that begin with "old_".
\* ---------------------------------------------------------------------------

\* Director.sorted_goals of goap/planner.py: goal_pairs.sort(), ascending
OldSortedGoals(goal_list, world_state) == Reverse(SortedGoals(goal_list, world_state))

\* Director(planner, world_state, goals) of goap/planner.py: self._plan = None
InitOldDirector ==
    /\ world \in Worlds
    /\ goals \in ActionLists({g.name : g \in GoalClasses}, MaxGoals)
    /\ planner \in SUBSET {goals[i] : i \in DOMAIN goals}
    /\ generator = "old_returned"
    /\ graph = NoGraph
    /\ plan = NoPlan
    /\ log = <<>>
    /\ calls = 0
    /\ actions = <<>>
    /\ goal = EmptyDict
    /\ pc = "idle"
    /\ nodes = <<>>
    /\ parents = EmptyMap
    /\ g_scores = EmptyMap
    /\ f_scores = EmptyMap
    /\ candidates = EmptyQueue
    /\ rejects = {}
    /\ expanded = <<>>
    /\ plan_steps = <<>>
    /\ plan_steps_it = 0
    /\ current_plan_step = 0

\* Director.update() of goap/planner.py, called by the caller: the branch on
\* self._plan is None
OldDirectorUpdate ==
    /\ calls < MaxTicks
    /\ generator = "old_returned"
    /\ calls' = calls + 1
    /\ log' = Append(log, [Event("update", <<>>, <<>>, plan.goal, plan.id, "")
                              EXCEPT !.tick = calls + 1])
    /\ generator' = IF plan = NoPlan THEN "old_find_best_plan" ELSE "old_plan_update"
    /\ UNCHANGED <<world, actions, goal, pc, nodes, parents, g_scores, f_scores, candidates,
                   rejects, expanded, plan, plan_steps, plan_steps_it, current_plan_step,
                   goals, planner, graph>>

\* update(): self._plan = self.find_best_plan(), PlannerFailedException being
\* logged; update() returns after it
OldFindBestPlan ==
    /\ generator = "old_find_best_plan"
    /\ Len(log) < MaxEvents
    /\ IF SortedGoalsRaises(goals, world)
       THEN /\ log' = Append(log, Event("raise", <<>>, <<>>, NoGoal, 0, "TypeError"))
            /\ UNCHANGED plan
       ELSE LET sorted == OldSortedGoals(goals, world)
                found == FindBestPlanFrom(sorted, 1, world, planner, <<>>)
            IN IF found.goal = NoGoal
               THEN /\ log' = Append(log, Event("find_best_plan", sorted, found.planned,
                                                NoGoal, 0, "PlannerFailedException"))
                    /\ UNCHANGED plan
               ELSE /\ log' = Append(log, Event("find_best_plan", sorted, found.planned,
                                                found.goal, Len(log) + 1, ""))
                    /\ plan' = [goal |-> found.goal, id |-> Len(log) + 1]
    /\ generator' = "old_returned"
    /\ UNCHANGED <<world, actions, goal, pc, nodes, parents, g_scores, f_scores, candidates,
                   rejects, expanded, plan_steps, plan_steps_it, current_plan_step, calls,
                   goals, planner, graph>>

\* update(): plan_state = self._plan.update(world_state); it returns when the
\* plan is running, else it forgets the plan and calls itself
OldPlanUpdate ==
    /\ generator = "old_plan_update"
    /\ Len(log) < MaxEvents
    /\ \E status \in Statuses, written \in BOOLEAN :
          /\ world' = IF written THEN Goal(plan.goal).state @@ world ELSE world
          /\ log' = Append(log, [Event("plan_update", <<>>, <<>>, plan.goal, plan.id, status)
                                    EXCEPT !.world = world'])
          /\ IF status = "running"
             THEN generator' = "old_returned" /\ UNCHANGED plan
             ELSE generator' = "old_find_best_plan" /\ plan' = NoPlan
    /\ UNCHANGED <<actions, goal, pc, nodes, parents, g_scores, f_scores, candidates,
                   rejects, expanded, plan_steps, plan_steps_it, current_plan_step,
                   calls, goals, planner, graph>>

NextOldDirector ==
    \/ OldDirectorUpdate
    \/ OldFindBestPlan
    \/ OldPlanUpdate
    \/ Sense

\* a Director of either class
SpecDirectors ==
    (InitDirector \/ InitOldDirector) /\ [][NextDirector \/ NextOldDirector]_vars

\* ---------------------------------------------------------------------------
\* The Director of goap/director.py followed through one update() after the
\* other without a record of its calls: log stays empty, so that a Director
\* going round its loops comes back to a state it has been in.
\* ---------------------------------------------------------------------------

\* Director.update(): next(self._generator)
RunDirectorUpdate ==
    /\ calls < MaxTicks
    /\ generator \in {"created", "yield_no_plan", "yield_running", "raised"}
    /\ calls' = calls + 1
    /\ generator' = IF generator = "raised" THEN generator ELSE ResumeAt(generator)
    /\ UNCHANGED <<world, actions, goal, pc, nodes, parents, g_scores, f_scores, candidates,
                   rejects, expanded, plan, plan_steps, plan_steps_it, current_plan_step,
                   log, goals, planner, graph>>

\* _execution_loop: plan = self.find_best_plan(), and the yield that follows
\* NoPlanFoundError
RunFindBestPlan ==
    /\ generator = "find_best_plan"
    /\ IF SortedGoalsRaises(goals, world)
       THEN generator' = "raised" /\ UNCHANGED plan
       ELSE LET found == FindBestPlanFrom(SortedGoals(goals, world), 1, world, planner, <<>>)
            IN IF found.goal = NoGoal
               THEN generator' = "yield_no_plan" /\ UNCHANGED plan
               ELSE /\ generator' = "plan_update"
                    /\ plan' = [goal |-> found.goal, id |-> 1]
    /\ UNCHANGED <<world, actions, goal, pc, nodes, parents, g_scores, f_scores, candidates,
                   rejects, expanded, plan_steps, plan_steps_it, current_plan_step, log, calls,
                   goals, planner, graph>>

\* _execution_loop: status = plan.update(); the yield when the plan is running,
\* else the break back to the outer loop
RunPlanUpdate ==
    /\ generator = "plan_update"
    /\ \E status \in PlanStatuses, written \in BOOLEAN :
          /\ world' = IF written THEN Goal(plan.goal).state @@ world ELSE world
          /\ generator' = IF status = "running" THEN "yield_running" ELSE "find_best_plan"
    /\ UNCHANGED <<actions, goal, pc, nodes, parents, g_scores, f_scores, candidates,
                   rejects, expanded, plan, plan_steps, plan_steps_it, current_plan_step,
                   log, calls, goals, planner, graph>>

NextDirectorRuns ==
    \/ RunDirectorUpdate
    \/ RunFindBestPlan
    \/ RunPlanUpdate
    \/ Sense

\* a resumed generator runs on until it yields or raises
SpecDirectorRuns ==
    /\ InitDirector
    /\ [][NextDirectorRuns]_vars
    /\ WF_vars(RunFindBestPlan)
    /\ WF_vars(RunPlanUpdate)

-----------------------------------------------------------------------------
(* AStarAlgorithm.find_path (goap/algo/astar.py) over nodes that are equal   *)
(* when they have the same name                                              *)

\* the nodes of a subclass whose nodes hash and compare by name, in the order
\* its get_neighbours lists them
NamedNodes == <<"S", "A", "B", "T">>

\* the pairs get_neighbours may link
Edges == {<<"S", "A">>, <<"S", "B">>, <<"B", "A">>, <<"A", "T">>, <<"B", "T">>}

\* the graphs searched: get_g_score of every edge (0: no such edge) and
\* get_h_score of the inner nodes
Graphs ==
    {[cost |-> c, h |-> h] : c \in [Edges -> 0..MaxEdgeCost],
                             h \in [{"A", "B"} -> 0..MaxHScore]}

\* get_neighbours(node) of the subclass
NamedNeighbours(node) ==
    SelectSeq(NamedNodes, LAMBDA m : <<node, m>> \in Edges /\ graph.cost[<<node, m>>] > 0)

\* get_h_score(node) of the subclass
NamedHScore(node) == IF node \in DOMAIN graph.h THEN graph.h[node] ELSE 0

\* one pass of the loop over the neighbours of current, as the search saw it
Visit(current, neighbour, tentative_g_score, recorded, in_candidates, in_rejects, outcome) ==
    [current |-> current, neighbour |-> neighbour,
     tentative_g_score |-> tentative_g_score, recorded |-> recorded,
     in_candidates |-> in_candidates, in_rejects |-> in_rejects, outcome |-> outcome]

\* find_path taking a closed node up again when it is reached at a lower g
RECURSIVE VisitNamedFrom_Reopens(_, _, _, _, _)
VisitNamedFrom_Reopens(st, current, neighbours, closed, i) ==
    IF i > Len(neighbours) THEN st
    ELSE LET neighbour == neighbours[i]
             tentative_g_score == st.g[current] + graph.cost[<<current, neighbour>>]
             recorded == IF neighbour \in DOMAIN st.g THEN st.g[neighbour] ELSE -1
             tentative_is_better ==
                 neighbour \notin DOMAIN st.g \/ tentative_g_score < st.g[neighbour]
             f_score == tentative_g_score + NamedHScore(neighbour)
             in_candidates == QueueContains(st.q, neighbour)
             seen(outcome) == Append(st.visits,
                                     Visit(current, neighbour, tentative_g_score, recorded,
                                           in_candidates, neighbour \in closed, outcome))
         IN IF (neighbour \in closed \/ in_candidates) /\ ~tentative_is_better
            THEN VisitNamedFrom_Reopens([st EXCEPT !.visits = seen("skipped")],
                                        current, neighbours, closed, i + 1)
            ELSE LET assigned == [st EXCEPT !.parents = (neighbour :> current) @@ @,
                                            !.g = (neighbour :> tentative_g_score) @@ @,
                                            !.f = (neighbour :> f_score) @@ @]
                 IN IF QueueAddRaises(st.q, neighbour)
                    THEN [assigned EXCEPT !.visits = seen("ValueError"), !.raised = TRUE]
                    ELSE VisitNamedFrom_Reopens(
                            [assigned EXCEPT !.q = QueueAdd(st.q, neighbour, f_score),
                                             !.visits = seen("added")],
                            current, neighbours, closed, i + 1)

\* find_path: the loop over get_neighbours(current), over the record
\* [parents, g, f, q, visits, raised]; candidates.add raising ValueError ends it
RECURSIVE VisitNamedFrom(_, _, _, _, _)
VisitNamedFrom(st, current, neighbours, closed, i) ==
    IF i > Len(neighbours) THEN st
    ELSE LET neighbour == neighbours[i]
             tentative_g_score == st.g[current] + graph.cost[<<current, neighbour>>]
             recorded == IF neighbour \in DOMAIN st.g THEN st.g[neighbour] ELSE -1
             tentative_is_better ==
                 neighbour \notin DOMAIN st.g \/ tentative_g_score < st.g[neighbour]
             f_score == tentative_g_score + NamedHScore(neighbour)
             in_candidates == QueueContains(st.q, neighbour)
             seen(outcome) == Append(st.visits,
                                     Visit(current, neighbour, tentative_g_score, recorded,
                                           in_candidates, neighbour \in closed, outcome))
         IN IF neighbour \in closed \/ (in_candidates /\ ~tentative_is_better)
            THEN VisitNamedFrom([st EXCEPT !.visits = seen("skipped")],
                                current, neighbours, closed, i + 1)
            ELSE LET assigned == [st EXCEPT !.parents = (neighbour :> current) @@ @,
                                            !.g = (neighbour :> tentative_g_score) @@ @,
                                            !.f = (neighbour :> f_score) @@ @]
                 IN IF QueueAddRaises(st.q, neighbour)
                    THEN [assigned EXCEPT !.visits = seen("ValueError"), !.raised = TRUE]
                    ELSE VisitNamedFrom(
                            [assigned EXCEPT !.q = QueueAdd(st.q, neighbour, f_score),
                                             !.visits = seen("added")],
                            current, neighbours, closed, i + 1)

\* a search object on one graph, find_path not yet called
InitAStar ==
    /\ graph \in Graphs
    /\ pc = "idle"
    /\ parents = EmptyMap
    /\ g_scores = EmptyMap
    /\ f_scores = EmptyMap
    /\ candidates = EmptyQueue
    /\ rejects = {}
    /\ expanded = <<>>
    /\ plan = <<>>
    /\ log = <<>>
    /\ world = EmptyFn
    /\ actions = <<>>
    /\ goal = EmptyDict
    /\ nodes = <<>>
    /\ plan_steps = <<>>
    /\ plan_steps_it = 0
    /\ current_plan_step = 0
    /\ calls = 0
    /\ goals = <<>>
    /\ planner = {}
    /\ generator = "none"

\* find_path("S", "T") up to the first iteration of its loop
AStarFindPath ==
    /\ pc = "idle"
    /\ graph # NoGraph
    /\ g_scores' = ("S" :> 0)
    /\ f_scores' = ("S" :> NamedHScore("S"))
    /\ candidates' = QueueAdd(EmptyQueue, "S", NamedHScore("S"))
    /\ pc' = "astar"
    /\ UNCHANGED <<world, actions, goal, nodes, parents, rejects, expanded, plan,
                   execVars, directorVars, graph>>

\* find_path: the open set is empty, PathNotFoundException
AStarPathNotFound ==
    /\ pc = "astar"
    /\ ~QueueBool(candidates)
    /\ pc' = "astar_notfound"
    /\ UNCHANGED <<world, actions, goal, nodes, parents, g_scores, f_scores,
                   candidates, rejects, expanded, plan, execVars, directorVars, graph>>

\* find_path: the popped node is the end; the path is returned
AStarFinish ==
    /\ pc = "astar"
    /\ QueueBool(candidates)
    /\ LET popped == QueuePop(candidates)
       IN /\ popped.value = "T"
          /\ candidates' = popped.queue
          /\ plan' = PathTo(popped.value, parents)
          /\ expanded' = Append(expanded, popped.value)
          /\ pc' = "astar_found"
    /\ UNCHANGED <<world, actions, goal, nodes, parents, g_scores, f_scores, rejects,
                   execVars, directorVars, graph>>

\* find_path: one iteration that expands the popped node, to its end or to
\* the ValueError of candidates.add
AStarExpand ==
    /\ pc = "astar"
    /\ QueueBool(candidates)
    /\ LET popped == QueuePop(candidates)
           current == popped.value
           closed == rejects \cup {current}
           st == VisitNamedFrom([parents |-> parents, g |-> g_scores, f |-> f_scores,
                                 q |-> popped.queue, visits |-> log, raised |-> FALSE],
                                current, NamedNeighbours(current), closed, 1)
       IN /\ current # "T"
          /\ rejects' = closed
          /\ expanded' = Append(expanded, current)
          /\ parents' = st.parents
          /\ g_scores' = st.g
          /\ f_scores' = st.f
          /\ candidates' = st.q
          /\ log' = st.visits
          /\ pc' = IF st.raised THEN "astar_valueerror" ELSE "astar"
    /\ UNCHANGED <<world, actions, goal, nodes, plan, plan_steps, plan_steps_it,
                   current_plan_step, calls, directorVars, graph>>

NextAStar ==
    \/ AStarFindPath
    \/ AStarPathNotFound
    \/ AStarFinish
    \/ AStarExpand

SpecAStar == InitAStar /\ [][NextAStar]_vars

-----------------------------------------------------------------------------
(* Claims *)

\* C1: for an acyclic action set and a goal reachable from the WorldState (and
\* not yet satisfied), find_plan returns a non-empty plan and applying the
\* steps' effects in plan order to the WorldState yields a state that satisfies
\* the goal.
C1_PlanReachesGoal ==
    (pc \in Terminal /\ GoalKeysKnown /\ AcyclicActions /\ ~GoalHolds(world, goal)
        /\ GoalReachable)
        => /\ pc = "found"
           /\ plan # <<>>
           /\ GoalHolds(StateAfter(world, plan, Len(plan)), goal)

\* C2: in a returned plan prerequisites come before their dependents: every
\* literal precondition of a step's action holds in the state obtained by
\* applying the effects of the preceding steps to the WorldState (stated for
\* action sets without dependency cycles); for
\* Action1, Action2, Action3 and the goal THIRD=True the plan is
\* [Action1, Action2, Action3].
C2_PrerequisitesFirst ==
    pc = "found" =>
        /\ AcyclicActions => \A i \in DOMAIN plan :
              \A j \in DOMAIN Action(plan[i].action).preconditions :
                  LET pre == Action(plan[i].action).preconditions[j]
                  IN ~pre.ref =>
                        WorldGet(StateAfter(world, plan, i - 1), pre.key) = pre.value
        /\ (actions = <<"Action1", "Action2", "Action3">>
                /\ goal = DictOf(<< <<"THIRD", "True">> >>))
              => PlanActions = <<"Action1", "Action2", "Action3">>

\* a goal key whose value the WorldState does not hold and that no action of
\* the list can produce: no action declares it, or only with other literals
Unproducible(k) ==
    /\ WorldGet(world, k) # goal.val[k]
    /\ \A a \in ActionSet :
          k \in EffectKeys(Action(a)) =>
              /\ EffectValue(Action(a), k) # Ellipsis
              /\ EffectValue(Action(a), k) # goal.val[k]

\* C3: when a goal key/value cannot be produced by any action, find_plan ends
\* with PathNotFoundException.
C3_UnproducibleIsPathNotFound ==
    (pc \in Terminal /\ GoalKeysKnown /\ \E k \in DOMAIN goal.val : Unproducible(k))
        => pc = "notfound"

\* C4: an action with a Service effect on K, selected for a node that demanded
\* K=V, is bound with services[K] = V, in every node of the search and in every
\* step of the returned plan; a step of an action without Service effects has
\* an empty services table.
C4_ServiceTakesDemandedValue ==
    /\ \A n \in DOMAIN parents :
          LET demanding == nodes[parents[n]]
          IN \A K \in ServiceNames(Action(nodes[n].action)) :
                (\E u \in DOMAIN UnsatisfiedKeys(demanding) :
                     UnsatisfiedKeys(demanding)[u] = K)
                   => Services(nodes[n])[K] = demanding.goal_state.val[K]
    /\ pc = "found" =>
          \A i \in DOMAIN plan :
              LET demanding == nodes[parents[StepNode(i)]]
              IN /\ DOMAIN plan[i].services = ServiceNames(Action(plan[i].action))
                 /\ \A K \in ServiceNames(Action(plan[i].action)) :
                       (\E u \in DOMAIN UnsatisfiedKeys(demanding) :
                            UnsatisfiedKeys(demanding)[u] = K)
                          => plan[i].services[K] = demanding.goal_state.val[K]

C4_Witness ==
    /\ pc = "found"
    /\ \E i \in DOMAIN plan :
          /\ "chant_incantation" \in DOMAIN plan[i].services
          /\ plan[i].services["chant_incantation"] = SPOOKY_INCANTATION
    /\ \E i \in DOMAIN plan : DOMAIN plan[i].services = {}

SameButCost(a, b) ==
    /\ Action(a).effects = Action(b).effects
    /\ Action(a).preconditions = Action(b).preconditions
    /\ Action(a).precedence = Action(b).precedence
    /\ Action(a).refused = Action(b).refused

SameButPrecedence(a, b) ==
    /\ Action(a).effects = Action(b).effects
    /\ Action(a).preconditions = Action(b).preconditions
    /\ Action(a).cost = Action(b).cost
    /\ Action(a).refused = Action(b).refused

\* C7: of two candidates that lead to solutions of equal cost, precedence alone
\* decides (lower value first): a plan never uses an action when the list holds
\* the same action with a lower precedence value.
C7_PrecedenceBreaksTies ==
    pc = "found" =>
        \A i \in DOMAIN plan : \A a \in ActionSet :
            SameButPrecedence(a, plan[i].action)
               => Action(a).precedence >= Action(plan[i].action).precedence

\* an effect key of the action that is also one of its literal preconditions
OwnPreconditions(action) ==
    {j \in DOMAIN action.preconditions :
        /\ ~action.preconditions[j].ref
        /\ action.preconditions[j].key \in EffectKeys(action)
        /\ EffectValue(action, action.preconditions[j].key) # Ellipsis}

\* C8: for an action with effect K=V and precondition K=P, when the WorldState
\* holds K=P the node made by the action has K satisfied from the WorldState
\* (no further step for K); world {age:1}, goal {age:2} gives [BecomeTwo] with
\* empty services and the haunting example gives [BecomeUndead, Haunt].
C8_OwnPreconditionMetFromWorld ==
    /\ \A n \in DOMAIN nodes :
          nodes[n].action # NoAction =>
              \A j \in OwnPreconditions(Action(nodes[n].action)) :
                  LET pre == Action(nodes[n].action).preconditions[j]
                  IN WorldGet(world, pre.key) = pre.value
                        => /\ nodes[n].current_state[pre.key] = pre.value
                           /\ nodes[n].goal_state.val[pre.key] = pre.value
    /\ (pc \in Terminal \cup {"cutoff"} /\ world = [k \in {"age"} |-> "1"]
            /\ actions = <<"BecomeTwo">> /\ goal = DictOf(<< <<"age", "2">> >>))
          => /\ pc = "found"
             /\ plan = <<[action |-> "BecomeTwo", services |-> EmptyFn]>>
    /\ (pc \in Terminal \cup {"cutoff"} /\ ActionSet = {"BecomeUndead", "Haunt"}
            /\ goal = DictOf(<< <<"is_spooky", "True">> >>))
          => /\ pc = "found"
             /\ PlanActions = <<"BecomeUndead", "Haunt">>

C8_Witness ==
    /\ pc = "found"
    /\ PlanActions = <<"BecomeUndead", "Haunt">>
    /\ world["is_undead"] = "False"

\* the step of a logged event commits its effects on exit
Commits(e) == Action(plan_steps[e.step].action).apply_effects_on_exit

\* C9: when the procedural precondition of the step about to be entered is
\* false, update() returns failure at once: in that call the step's on_enter
\* hook is not invoked and the step's effects are not written, the WorldState
\* being left as it was when the precondition was evaluated.
C9_FailedPreconditionAbortsEntry ==
    \A j \in DOMAIN log :
        (log[j].ev = "check_procedural_precondition" /\ log[j].result = "False")
            => /\ j + 1 \in DOMAIN log
               /\ log[j + 1].ev = "return"
               /\ log[j + 1].result = "failure"
               /\ log[j + 1].call = log[j].call
               /\ log[j + 1].world = log[j].world
               /\ \A m \in DOMAIN log :
                     (log[m].call = log[j].call /\ log[m].step = log[j].step)
                        => log[m].ev \notin {"on_enter", "apply_effects"}

C9_Witness ==
    \E j \in DOMAIN log :
        /\ log[j].ev = "check_procedural_precondition"
        /\ log[j].result = "False"
        /\ log[j].step = 2
        /\ log[j - 1].ev = "apply_effects"

\* C10: when the poll of the current step returns success, update() invokes the
\* step's exit hook and then writes the action's effects into the WorldState
\* exactly when the action has apply_effects_on_exit; for an action without it
\* the exit leaves the WorldState unchanged.
C10_EffectsCommittedOnExitIfMarked ==
    \A j \in DOMAIN log :
        (log[j].ev = "get_status" /\ log[j].result = "success")
            => /\ j + 2 \in DOMAIN log
               /\ log[j + 1].ev = "on_exit"
               /\ log[j + 1].step = log[j].step
               /\ log[j + 1].call = log[j].call
               /\ log[j + 1].world = log[j].world
               /\ Commits(log[j]) =>
                     /\ log[j + 2].ev = "apply_effects"
                     /\ log[j + 2].step = log[j].step
                     /\ log[j + 2].world =
                           ApplyEffects(log[j].world, Action(plan_steps[log[j].step].action),
                                        plan_steps[log[j].step].goal_state)
               /\ ~Commits(log[j]) =>
                     /\ log[j + 2].ev # "apply_effects"
                     /\ log[j + 2].world = log[j].world

C10_Witness ==
    /\ \E j \in DOMAIN log :
          /\ log[j].ev = "get_status" /\ log[j].result = "success"
          /\ plan_steps[log[j].step].action = "ChaseTarget"
          /\ log[j].world["in_weapons_range"] = "False"
    /\ \E j \in DOMAIN log :
          /\ log[j].ev = "get_status" /\ log[j].result = "success"
          /\ plan_steps[log[j].step].action = "ChantIncantation"
          /\ log[j + 2].world["chant_incantation"] = SPOOKY_INCANTATION

\* C11: plan execution writes the WorldState only at a step's successful exit:
\* the effects of a step are written only after its status poll returned
\* success, so a step whose poll returns failure, and a step that is cancelled,
\* commit none of their effects.
C11_EffectsOnlyAtSuccessfulExit ==
    /\ \A j \in DOMAIN log :
          log[j].ev = "apply_effects"
              => \E i \in DOMAIN log :
                    /\ i < j
                    /\ log[i].call = log[j].call
                    /\ log[i].step = log[j].step
                    /\ log[i].ev = "get_status"
                    /\ log[i].result = "success"
    /\ \A j \in DOMAIN log :
          (j > 1 /\ log[j].ev \notin {"apply_effects"}) => log[j].world = log[j - 1].world

\* C12: when the poll of the current step returns failure, update() invokes the
\* action's failure hook, returns failure, and enters none of the remaining
\* steps.
C12_FailureInvokesFailureHook ==
    \A j \in DOMAIN log :
        (log[j].ev = "get_status" /\ log[j].result = "failure")
            => /\ \E m \in DOMAIN log :
                     /\ m > j
                     /\ log[m].call = log[j].call
                     /\ log[m].step = log[j].step
                     /\ log[m].ev = "on_failure"
               /\ \A m \in DOMAIN log :
                     (m > j /\ log[m].ev = "return" /\ log[m].call = log[j].call)
                        => log[m].result = "failure"
               /\ \A m \in DOMAIN log : m > j => log[m].ev # "on_enter"

\* C13: after cancel() on a plan with a running step, the step's failure hook is
\* invoked at the next poll, the next update() returns cancelled, and no later
\* step is ever entered.
C13_CancelObservedAtNextPoll ==
    \A j \in DOMAIN log :
        (log[j].ev = "cancel" /\ log[j].step # 0)
            => /\ \A m \in DOMAIN log :
                     (log[m].ev = "return" /\ log[m].call = log[j].call + 1)
                        => /\ log[m].result = "cancelled"
                           /\ \E i \in DOMAIN log :
                                 /\ log[i].call = log[j].call + 1
                                 /\ log[i].ev = "on_failure"
                                 /\ log[i].step = log[j].step
               /\ \A m \in DOMAIN log : m > j => log[m].ev # "on_enter"

\* C14: each update() call enters at most one step.
C14_OneStepEnteredPerUpdate ==
    \A i, j \in DOMAIN log :
        (log[i].ev = "on_enter" /\ log[j].ev = "on_enter" /\ log[i].call = log[j].call)
            => i = j

\* C19: find_plan never writes the WorldState: every step of a planning pass,
\* whether the pass goes on to return a plan or to raise, leaves the WorldState
\* as it was.
C19_FindPlanLeavesWorldState == [][world' = world]_vars

\* a pass has returned a plan after looking up, in the WorldState, a key the
\* WorldState does not hold
C19_Witness ==
    /\ pc = "found"
    /\ \E n \in DOMAIN nodes : \E k \in DOMAIN nodes[n].current_state :
          /\ k \notin DOMAIN world
          /\ nodes[n].current_state[k] = NOT_DEFINED

\* the items added and not since removed or popped after the first n calls,
\* each with the score it was added with
RECURSIVE LiveAfter(_, _)
LiveAfter(called, n) ==
    IF n = 0 THEN EmptyMap
    ELSE LET e == called[n]
             before == LiveAfter(called, n - 1)
         IN IF e.raised THEN before
            ELSE IF e.op = "add" THEN (e.item :> e.score) @@ before
            ELSE [k \in DOMAIN before \ {e.item} |-> before[k]]

\* C20: pop() returns a live item whose insertion-time score is minimal among
\* the live items, and removes it; it never returns an item that was removed,
\* or popped and not added again; it raises only when no item is live.
C20_PopReturnsMinimalLiveItem ==
    \A n \in DOMAIN log :
        log[n].op = "pop"
            => LET live == LiveAfter(log, n - 1)
               IN IF log[n].raised THEN DOMAIN live = {}
                  ELSE /\ log[n].item \in DOMAIN live
                       /\ log[n].score = live[log[n].item]
                       /\ \A k \in DOMAIN live : live[log[n].item] <= live[k]

\* a pop that returns a live item although the heap held, before it, a flagged
\* entry of a lower score
C20_Witness ==
    \E n \in DOMAIN log :
        /\ log[n].op = "pop" /\ ~log[n].raised
        /\ \E i, j \in 1..(n - 1) :
              /\ i < j
              /\ log[i].op = "add" /\ ~log[i].raised /\ log[i].score < log[n].score
              /\ log[j].op = "remove" /\ ~log[j].raised /\ log[j].item = log[i].item

\* the elements of a sequence
Range(seq) == {seq[i] : i \in DOMAIN seq}

\* the place of the adopted goal among the sorted goals of one find_best_plan
\* call, past the end when no plan was adopted
AdoptedAt(e) ==
    IF e.goal = NoGoal THEN Len(e.sorted) + 1
    ELSE CHOOSE i \in DOMAIN e.sorted : e.sorted[i] = e.goal

\* C15: in every find_best_plan call the planner is invoked for no goal whose
\* state the WorldState already satisfies; such a goal is skipped and the goal
\* after it is considered (the planner is invoked for the next unsatisfied one).
C15_SatisfiedGoalNeverPlanned ==
    \A n \in DOMAIN log :
        log[n].ev = "find_best_plan"
            => LET e == log[n]
               IN /\ \A g \in Range(e.planned) : ~GoalIsSatisfied(Goal(g), e.world)
                  /\ \A i, j \in DOMAIN e.sorted :
                        (/\ i < j /\ i < AdoptedAt(e)
                         /\ GoalIsSatisfied(Goal(e.sorted[i]), e.world)
                         /\ ~GoalIsSatisfied(Goal(e.sorted[j]), e.world)
                         /\ \A k \in (i + 1)..(j - 1) :
                               GoalIsSatisfied(Goal(e.sorted[k]), e.world))
                            => e.sorted[j] \in Range(e.planned)

\* the most relevant goal is already satisfied and the plan adopted is for the
\* goal after it
C15_Witness ==
    \E n \in DOMAIN log :
        /\ log[n].ev = "find_best_plan"
        /\ Len(log[n].sorted) = 2
        /\ GoalIsSatisfied(Goal(log[n].sorted[1]), log[n].world)
        /\ log[n].planned = <<log[n].sorted[2]>>
        /\ log[n].goal = log[n].sorted[2]

\* one goal selection of the Director: a find_best_plan call that returned or
\* raised NoPlanFoundError, or one that sorted_goals ended with a TypeError
IsSelection(e) ==
    e.ev = "find_best_plan" \/ (e.ev = "raise" /\ e.status = "TypeError")

\* the goals a plan may be adopted for: of strictly positive relevance, not
\* satisfied, and for which the planner finds a plan
Eligible(world_state) ==
    {g \in Range(goals) : /\ GetRelevance(Goal(g), world_state) > 0
                          /\ ~GoalIsSatisfied(Goal(g), world_state)
                          /\ ~PlannerRaises(planner, g)}

\* C16: in every goal selection the plan adopted is for an eligible goal of the
\* highest relevance among the eligible goals, and one is adopted whenever a
\* goal is eligible; the planner is invoked for no goal of relevance <= 0, and
\* for the goals in descending order of relevance.
C16_AdoptsMostRelevantEligibleGoal ==
    \A n \in DOMAIN log :
        IsSelection(log[n])
            => LET e == log[n]
                   eligible == Eligible(e.world)
               IN /\ \A g \in Range(e.planned) : GetRelevance(Goal(g), e.world) > 0
                  /\ \A i, j \in DOMAIN e.planned :
                        i < j => GetRelevance(Goal(e.planned[i]), e.world)
                                    >= GetRelevance(Goal(e.planned[j]), e.world)
                  /\ e.goal # NoGoal => e.goal \in eligible
                  /\ eligible # {}
                        => /\ e.goal \in eligible
                           /\ \A h \in eligible : GetRelevance(Goal(e.goal), e.world)
                                                       >= GetRelevance(Goal(h), e.world)

\* C17: a goal for which the planner raises PathNotFoundException is skipped
\* and the goal after it is tried in the same find_best_plan call; when no goal
\* yields a plan the update() call returns without raising and adopts no plan,
\* and the next update() selects again from all the goals.
C17_PathNotFoundSkipsGoal ==
    \A n \in DOMAIN log :
        log[n].ev = "find_best_plan"
            => LET e == log[n]
               IN /\ \A i \in DOMAIN e.sorted :
                        (i <= AdoptedAt(e) /\ ~GoalIsSatisfied(Goal(e.sorted[i]), e.world))
                            => e.sorted[i] \in Range(e.planned)
                  /\ \A g \in Range(e.planned) : PlannerRaises(planner, g) <=> g # e.goal
                  /\ e.status = "NoPlanFoundError"
                        => /\ e.goal = NoGoal
                           /\ n = Len(log) => generator = "yield_no_plan"
                           /\ n < Len(log)
                                 => /\ log[n + 1].ev = "update"
                                    /\ log[n + 1].tick = e.tick + 1
                                    /\ log[n + 1].id = IF n > 1 THEN log[n - 1].id ELSE 0
                           /\ n + 1 < Len(log)
                                 => /\ IsSelection(log[n + 2])
                                    /\ log[n + 2].ev = "find_best_plan"
                                          => log[n + 2].sorted
                                                = SortedGoals(goals, log[n + 2].world)

\* no goal yields a plan in one tick, the first of them for want of a path; in
\* the next tick the same goal is tried again, skipped again, and the plan of
\* the goal after it is adopted
C17_Witness ==
    \E n \in DOMAIN log :
        /\ n + 2 <= Len(log)
        /\ log[n].ev = "find_best_plan" /\ log[n].status = "NoPlanFoundError"
        /\ log[n].planned # <<>>
        /\ log[n + 1].ev = "update"
        /\ log[n + 2].ev = "find_best_plan"
        /\ Len(log[n + 2].planned) = 2
        /\ log[n + 2].planned[1] = log[n].planned[1]
        /\ log[n + 2].goal = log[n + 2].planned[2]

\* C18: after a plan update that reports running, the update() call returns;
\* the next call updates the same plan without any goal selection before it,
\* whatever the WorldState has become, and no plan is updated twice in one
\* call.
C18_RunningPlanIsNotPreempted ==
    /\ \A n \in DOMAIN log :
          (log[n].ev = "plan_update" /\ log[n].status = "running")
              => /\ n = Len(log) => generator \in {"yield_running", "old_returned"}
                 /\ n < Len(log)
                       => /\ log[n + 1].ev = "update"
                          /\ log[n + 1].tick = log[n].tick + 1
                 /\ n + 1 < Len(log)
                       => /\ log[n + 2].ev = "plan_update"
                          /\ log[n + 2].id = log[n].id
                          /\ log[n + 2].goal = log[n].goal
    /\ \A m, n \in DOMAIN log :
          (/\ m < n
           /\ log[m].ev = "plan_update" /\ log[n].ev = "plan_update"
           /\ log[m].id = log[n].id)
              => log[m].tick < log[n].tick

\* a running plan is updated again in the next call although, when that call
\* is made, another goal is eligible and more relevant than the plan's goal
C18_Witness ==
    \E n \in DOMAIN log :
        /\ n + 2 <= Len(log)
        /\ log[n].ev = "plan_update" /\ log[n].status = "running"
        /\ log[n + 1].ev = "update"
        /\ log[n + 2].ev = "plan_update"
        /\ \E h \in Eligible(log[n + 1].world) :
              /\ GetRelevance(Goal(h), log[n + 1].world)
                    > GetRelevance(Goal(log[n].goal), log[n + 1].world)
              /\ GetRelevance(Goal(h), log[n].world) <= 0

\* C21: add(item) raises exactly when item is in the queue, and an add that
\* raises leaves the queue as it was: the same members and the same heap, hence
\* the same later pops.
C21_AddOfPresentItemRaises ==
    /\ [](\A n \in DOMAIN log :
            log[n].op = "add"
                => (log[n].raised <=> log[n].item \in DOMAIN LiveAfter(log, n - 1)))
    /\ [][(/\ Len(log') = Len(log) + 1
            /\ log'[Len(log')].op = "add"
            /\ log'[Len(log')].raised)
              => candidates' = candidates]_vars

\* an add raised for a queued item, and a later pop returned that item with
\* the score of its first add
C21_Witness ==
    \E i, j, k \in DOMAIN log :
        /\ i < j /\ j < k
        /\ log[i].op = "add" /\ ~log[i].raised
        /\ log[j].op = "add" /\ log[j].raised /\ log[j].item = log[i].item
        /\ log[j].score # log[i].score
        /\ log[k].op = "pop" /\ ~log[k].raised
        /\ log[k].item = log[i].item /\ log[k].score = log[i].score

\* the successful adds of item x strictly between calls r and k
AddsBetween(x, r, k) ==
    {a \in (r + 1)..(k - 1) : log[a].op = "add" /\ ~log[a].raised /\ log[a].item = x}

\* C22: after a remove(item) that did not raise, item is not in the queue and
\* no pop returns it until it is added again; the first add after the removal
\* does not raise; a pop that then returns it carries the score of the latest
\* add and no other pop returned it since that add.
C22_RemovedItemStaysOutUntilAdded ==
    \A r \in DOMAIN log :
        (log[r].op = "remove" /\ ~log[r].raised)
            => LET x == log[r].item
               IN /\ AddsBetween(x, r, Len(log) + 1) = {} => ~QueueContains(candidates, x)
                  /\ \A a \in (r + 1)..Len(log) :
                        (log[a].op = "add" /\ log[a].item = x /\ AddsBetween(x, r, a) = {})
                            => ~log[a].raised
                  /\ \A k \in (r + 1)..Len(log) :
                        (log[k].op = "pop" /\ ~log[k].raised /\ log[k].item = x)
                            => /\ AddsBetween(x, r, k) # {}
                               /\ LET last == CHOOSE a \in AddsBetween(x, r, k) :
                                                  \A b \in AddsBetween(x, r, k) : b <= a
                                  IN /\ log[k].score = log[last].score
                                     /\ \A j \in (last + 1)..(k - 1) :
                                           ~(/\ log[j].op = "pop" /\ ~log[j].raised
                                             /\ log[j].item = x)

\* an item is added, removed, added again with a higher score and popped: the
\* pop passes over the flagged entry of the lower score
C22_Witness ==
    \E i, r, a, k \in DOMAIN log :
        /\ i < r /\ r < a /\ a < k
        /\ log[i].op = "add" /\ ~log[i].raised
        /\ log[r].op = "remove" /\ ~log[r].raised /\ log[r].item = log[i].item
        /\ log[a].op = "add" /\ ~log[a].raised /\ log[a].item = log[i].item
        /\ log[a].score > log[i].score
        /\ log[k].op = "pop" /\ ~log[k].raised /\ log[k].item = log[i].item
        /\ log[k].score = log[a].score

\* C23: the score kept with a queued item is the key function's value when the
\* item was added, whatever the key function returns for it now; and a pop
\* returns the item whose score at its add is lowest, also when the key
\* function's values at the time of the pop order the items otherwise.
C23_ScoreFrozenAtAdd ==
    /\ \A i \in DOMAIN candidates.heap :
          ~candidates.heap[i].removed
              => LET live == LiveAfter(log, Len(log))
                 IN /\ candidates.heap[i].value \in DOMAIN live
                    /\ candidates.heap[i].score = live[candidates.heap[i].value]
    /\ \A k \in DOMAIN log :
          (log[k].op = "pop" /\ ~log[k].raised)
              => LET live == LiveAfter(log, k - 1)
                 IN \A y \in DOMAIN live :
                       log[k].key[y] < log[k].key[log[k].item]
                           => live[log[k].item] <= live[y]

\* a pop returns the item added with the lower score although, when the pop
\* is made, the key function gives another queued item a lower value
C23_Witness ==
    \E k \in DOMAIN log :
        /\ log[k].op = "pop" /\ ~log[k].raised
        /\ \E y \in DOMAIN LiveAfter(log, k - 1) :
              /\ log[k].key[y] < log[k].key[log[k].item]
              /\ LiveAfter(log, k - 1)[log[k].item] < LiveAfter(log, k - 1)[y]

\* C24: whenever find_path reaches a neighbour that already has a g-score, a
\* strictly lower tentative g makes it record the new parent, g and f and put
\* the neighbour into the open set, and a tentative g that is not lower makes
\* it record nothing.
C24_BetterPathReopensNeighbour ==
    \A i \in DOMAIN log :
        log[i].recorded >= 0
            => IF log[i].tentative_g_score < log[i].recorded
               THEN log[i].outcome = "added"
               ELSE log[i].outcome = "skipped"

\* the goal keys of a node that an action applied to it would fix to another
\* value while the node still needs them (the requirement is not met in the
\* node's current_state and no effect of the action meets it)
ConflictingKeys(node, neighbour) ==
    {k \in DOMAIN node.goal_state.val \cap PreconditionKeys(Action(neighbour.action)) :
        /\ neighbour.goal_state.val[k] # node.goal_state.val[k]
        /\ node.current_state[k] # node.goal_state.val[k]
        /\ ~(/\ k \in EffectKeys(Action(neighbour.action))
             /\ EffectSatisfies(EffectValue(Action(neighbour.action), k),
                                node.goal_state.val[k]))}

\* C25: no neighbour is produced by an action whose preconditions replace, with
\* a different value, a requirement the node's goal_state still holds.
C25_ConflictingActionRejected ==
    \A n \in DOMAIN parents : ConflictingKeys(nodes[parents[n]], nodes[n]) = {}

\* C26: in every node made by apply_action, a key that is both an effect key
\* and a literal precondition key of the node's action holds, in current_state,
\* the value the precondition declares.
C26_OwnPreconditionValueWritten ==
    \A n \in DOMAIN parents :
        LET action == Action(nodes[n].action)
        IN \A j \in DOMAIN action.preconditions :
              (action.preconditions[j].key \in EffectKeys(action)
                 /\ ~action.preconditions[j].ref)
                  => nodes[n].current_state[action.preconditions[j].key]
                        = action.preconditions[j].value

\* C26 as amended: in every node made by apply_action, a key that is both a
\* literal effect key and a precondition key of the node's action holds, in
\* current_state, the value the WorldState has for it (NOT_DEFINED when the
\* WorldState lacks it).
C26_OwnPreconditionTakesWorldValue ==
    \A n \in DOMAIN parents :
        LET action == Action(nodes[n].action)
        IN \A i \in DOMAIN action.effects :
              (action.effects[i].value # Ellipsis
                 /\ action.effects[i].key \in PreconditionKeys(action))
                  => nodes[n].current_state[action.effects[i].key]
                        = WorldGet(world, action.effects[i].key)

\* a node made by an action whose own precondition on an effect key declares a
\* value the WorldState does not hold
C26_Witness ==
    \E n \in DOMAIN parents :
        \E j \in OwnPreconditions(Action(nodes[n].action)) :
            LET pre == Action(nodes[n].action).preconditions[j]
            IN /\ WorldGet(world, pre.key) # pre.value
               /\ WorldGet(world, pre.key) # EffectValue(Action(nodes[n].action), pre.key)
               /\ nodes[n].current_state[pre.key] = WorldGet(world, pre.key)

\* C27: every neighbour comes from an action that declares, for some
\* unsatisfied key K of the expanded node, the Service marker or the very value
\* the node requires for K; in the general-incantation test the plan is the
\* costlier ChantIncantation bound to the demanded value, never the cheaper
\* ChantSpecificIncantation whose literal differs.
C27_OnlyMatchingEffectProducesNeighbour ==
    /\ \A n \in DOMAIN parents :
          LET node == nodes[parents[n]]
              action == Action(nodes[n].action)
          IN \E i \in DOMAIN UnsatisfiedKeys(node) :
                LET key == UnsatisfiedKeys(node)[i]
                IN /\ key \in EffectKeys(action)
                   /\ EffectValue(action, key) \in {Ellipsis, node.goal_state.val[key]}
    /\ (/\ pc \in Terminal \cup {"cutoff"}
        /\ ActionSet = {"ChantIncantation", "ChantSpecificIncantation"}
        /\ goal = DictOf(<< <<"chant_incantation", SPOOKY_INCANTATION>> >>))
          => /\ pc = "found"
             /\ plan = <<[action |-> "ChantIncantation",
                          services |-> ("chant_incantation" :> SPOOKY_INCANTATION)]>>

\* the general incantation is found with the cheaper specific incantation on
\* offer
C27_Witness ==
    /\ pc = "found"
    /\ "ChantSpecificIncantation" \in ActionSet
    /\ goal = DictOf(<< <<"chant_incantation", SPOOKY_INCANTATION>> >>)
    /\ PlanActions = <<"ChantIncantation">>
    /\ GetCost(ChantSpecificIncantation, EmptyFn) < GetCost(ChantIncantation, EmptyFn)

\* C28: an action whose procedural precondition is false, in planning mode, on the
\* services of the node it would lead to yields no neighbour: every node a search
\* has recorded passes its action's procedural precondition, and so does every step of a plan
\* find_plan returns.
C28_RefusedActionYieldsNoNeighbour ==
    /\ \A n \in DOMAIN parents :
          CheckProceduralPrecondition(Action(nodes[n].action), Services(nodes[n]), TRUE)
    /\ pc = "found" =>
          \A i \in DOMAIN plan :
              CheckProceduralPrecondition(Action(plan[i].action), plan[i].services, TRUE)

\* a plan is found although a cheaper action offering the goal value was refused
C28_Witness ==
    /\ pc = "found"
    /\ "ChantUnlessSpooky" \in ActionSet
    /\ goal = DictOf(<< <<"chant_incantation", SPOOKY_INCANTATION>> >>)
    /\ ~CheckProceduralPrecondition(ChantUnlessSpooky, plan[1].services, TRUE)
    /\ PlanActions = <<"ChantIncantation">>
    /\ GetCost(ChantUnlessSpooky, EmptyFn) < GetCost(ChantIncantation, EmptyFn)

\* C29: the Service marker is never a resolved value: no node built during a
\* search maps a current_state key to the marker, and no step of a plan returned
\* by find_plan has the marker as a value of its services table.
C29_ServiceMarkerAlwaysBound ==
    /\ \A n \in DOMAIN nodes :
          \A k \in DOMAIN nodes[n].current_state : nodes[n].current_state[k] # Ellipsis
    /\ pc = "found" =>
          \A i \in DOMAIN plan :
              \A k \in DOMAIN plan[i].services : plan[i].services[k] # Ellipsis

\* a plan whose services were bound from a goal value and, through a reference,
\* from another step's service
C29_Witness ==
    /\ pc = "found"
    /\ \E i, j \in DOMAIN plan :
          /\ i < j
          /\ plan[i].action = "ChantAnything"
          /\ plan[j].action = "PerformMagic"
          /\ plan[i].services = ("chant_incantation" :> "abracadabra")
          /\ plan[j].services = ("performs_magic" :> "abracadabra")

\* C30: once update() has returned failure the plan is terminal: every later
\* update() call returns failure too, enters no step, invokes no hook and leaves
\* the WorldState as the failing call left it.
C30_FailedPlanIsTerminal ==
    \A j, m \in DOMAIN log :
        ( /\ j < m
          /\ log[j].ev = "return"
          /\ log[j].result = "failure"
          /\ \A c \in j..m : log[c].ev # "cancel" )
            => /\ log[m].ev = "return" => log[m].result = "failure"
               /\ log[m].ev \notin {"on_enter", "on_exit", "on_failure"}
               /\ log[m].world = log[j].world

\* C31: plan steps are entered in plan order, each at most once; a step is
\* entered only after the previous step's status poll returned success and its
\* exit hook ran, so that no two steps are current together.
C31_StepsEnteredInOrder ==
    /\ \A i, j \in DOMAIN log :
          (i < j /\ log[i].ev = "on_enter" /\ log[j].ev = "on_enter")
              => log[i].step < log[j].step
    /\ \A j \in DOMAIN log :
          (log[j].ev = "on_enter" /\ log[j].step > 1)
              => \E p, x \in DOMAIN log :
                    /\ p < x /\ x < j
                    /\ log[p].ev = "get_status"
                    /\ log[p].step = log[j].step - 1
                    /\ log[p].result = "success"
                    /\ log[x].ev = "on_exit"
                    /\ log[x].step = log[j].step - 1
                    /\ \A m \in (p + 1)..(j - 1) : log[m].ev # "get_status"

\* the second step has been entered, in a later call than the first
C31_Witness ==
    \E i, j \in DOMAIN log :
        /\ log[i].ev = "on_enter" /\ log[i].step = 1
        /\ log[j].ev = "on_enter" /\ log[j].step = 2
        /\ log[i].call < log[j].call

\* C32: every call to Director.update() returns control to the caller after
\* finitely many planner and plan-update invocations, whatever the goals and the
\* plans, also when a plan ends at once and leaves its goal unsatisfied.
C32_UpdateReturns ==
    [](generator \in {"find_best_plan", "plan_update"}
          => <>(generator \in {"yield_no_plan", "yield_running", "raised"}))

\* C33: after the active plan reports failure in a tick there is no retry in
\* that tick: the Director neither selects another plan nor updates one before
\* the next Director.update() call.
C33_NoRetryInTheTickOfAFailure ==
    \A i, j \in DOMAIN log :
        ( /\ i < j
          /\ log[i].ev = "plan_update"
          /\ log[i].status = "failure"
          /\ log[j].tick = log[i].tick )
            => /\ log[j].ev # "plan_update"
               /\ ~(log[j].ev = "find_best_plan" /\ log[j].goal # NoGoal)

\* C34: apply_action builds the child's current_state and goal_state as fresh
\* copies: no expansion changes the current_state or the goal_state of a node
\* that exists, nor the goal mapping find_plan was given.
C34_ExpansionLeavesNodesAndGoal ==
    [][nodes # <<>> => /\ \A n \in DOMAIN nodes : nodes'[n] = nodes[n]
                       /\ goal' = goal]_vars

\* the start node, holding the goal given to find_plan, has a child that differs
\* from it in both dicts
C34_Witness ==
    /\ nodes # <<>>
    /\ nodes[1].goal_state = goal
    /\ \E n \in DOMAIN parents :
          /\ parents[n] = 1
          /\ nodes[n].current_state # nodes[1].current_state
          /\ nodes[n].goal_state # nodes[1].goal_state

\* C35: in find_path a node popped from the open set and expanded is in the
\* closed set and never enters the open set again, also when it is reached
\* later at a strictly lower g: no node is expanded twice, and the open and the
\* closed set are disjoint.
C35_ClosedNodesStayClosed ==
    /\ candidates.dict \cap rejects = {}
    /\ \A i \in DOMAIN expanded :
          expanded[i] \in rejects \/ (i = Len(expanded) /\ pc = "astar_found")
    /\ \A i, j \in DOMAIN expanded : expanded[i] = expanded[j] => i = j
    /\ \A v \in DOMAIN log : log[v].in_rejects => log[v].outcome = "skipped"

\* an expanded node has been reached again at a strictly lower g, and passed over
C35_Witness ==
    \E v \in DOMAIN log :
        /\ log[v].in_rejects
        /\ log[v].neighbour \in rejects
        /\ log[v].recorded >= 0
        /\ log[v].tentative_g_score < log[v].recorded
        /\ log[v].outcome = "skipped"

\* C36: in every node of a search, the start node and the nodes apply_action
\* makes, every key of goal_state is a key of current_state; a key that a
\* precondition brings in has, in current_state, the value the WorldState gives
\* it (NOT_DEFINED when the WorldState has no such key).
C36_GoalKeysHaveCurrentValues ==
    /\ \A n \in DOMAIN nodes :
          DOMAIN nodes[n].goal_state.val \subseteq DOMAIN nodes[n].current_state
    /\ \A n \in DOMAIN parents :
          \A k \in PreconditionKeys(Action(nodes[n].action)) :
              (k \notin DOMAIN nodes[parents[n]].current_state
                    /\ k \notin EffectKeys(Action(nodes[n].action)))
                 => nodes[n].current_state[k] =
                       IF k \in DOMAIN world THEN world[k] ELSE NOT_DEFINED

\* a node holds a key its action's precondition brought in, with the WorldState's
\* value, which is not the value asked
C36_Witness ==
    \E n \in DOMAIN parents :
        \E k \in PreconditionKeys(Action(nodes[n].action)) \cap DOMAIN world :
            /\ k \notin DOMAIN nodes[parents[n]].current_state
            /\ nodes[n].current_state[k] = world[k]
            /\ nodes[n].goal_state.val[k] # world[k]

\* C37: after any sequence of add, remove and pop the items the queue reports as
\* contained are the items added and not since removed or popped; each of them
\* has exactly one heap entry that is not flagged; and the queue is falsy exactly
\* when there is no such item, flagged entries left in the heap or not.
C37_ContainedItemsAreTheLiveItems ==
    LET live == DOMAIN LiveAfter(log, Len(log))
    IN /\ \A item \in Items : QueueContains(candidates, item) <=> item \in live
       /\ \A item \in live :
             Cardinality({i \in DOMAIN candidates.heap :
                             /\ candidates.heap[i].value = item
                             /\ ~candidates.heap[i].removed}) = 1
       /\ ~QueueBool(candidates) <=> live = {}

\* an item is contained again while the heap still holds its flagged entry
C37_Witness ==
    /\ \E i, j \in DOMAIN candidates.heap :
          /\ candidates.heap[i].value = candidates.heap[j].value
          /\ candidates.heap[i].removed
          /\ ~candidates.heap[j].removed
          /\ QueueContains(candidates, candidates.heap[j].value)
    /\ \E n \in DOMAIN log : log[n].op = "remove" /\ ~log[n].raised


\* C38: find_plan terminates: a search that has started ends after finitely many
\* expansions, either with a plan returned or with the open set empty and
\* PathNotFoundException raised.
C38_FindPlanTerminates ==
    [](pc = "search" => <>(pc \in {"found", "notfound"}))

\* the same with a KeyError out of get_neighbours counted as an end of the
\* search: the only search left that does not end is the one that recurs
C38_SearchEnds ==
    [](pc = "search" => <>(pc \in Terminal))

\* C39: over any sequence of update() and cancel() calls a step's exit hook runs
\* only after that step's on_enter hook, at most once for it, and before the
\* on_enter hook of any later step; a step's status is never polled before its
\* on_enter hook has run.
C39_HooksArePaired ==
    /\ \A x \in DOMAIN log :
          log[x].ev \in {"on_exit", "get_status"}
              => \E e \in 1..(x - 1) :
                    log[e].ev = "on_enter" /\ log[e].step = log[x].step
    /\ \A x, y \in DOMAIN log :
          (log[x].ev = "on_exit" /\ log[y].ev = "on_exit" /\ log[x].step = log[y].step)
              => x = y
    /\ \A e, j \in DOMAIN log :
          (e < j /\ log[e].ev = "on_enter" /\ log[j].ev = "on_enter")
              => \E x \in (e + 1)..(j - 1) :
                    log[x].ev = "on_exit" /\ log[x].step = log[e].step

====
